---- MODULE Spec2Model ----
(***************************************************************************)
(* DeepFrank: the detection decoder and suppressor (DetectionService), the  *)
(* body-part analysis (AnalysisService, extract_roi, the analyzers), the    *)
(* emotion fuser (CatEmotionAnalyzer), preprocess_image and the analyzers   *)
(* called on their own, the two image routes, the authentication           *)
(* dependencies, analyze_image_file, the chat (ChatService and its          *)
(* workflow), get_or_create_user under concurrent calls, and concurrent     *)
(* analysis invocations on one DetectionService.                            *)
(*                                                                         *)
(* Numbers.  Confidences and class scores are integers in hundredths       *)
(* (0.25 is 25).  Tensor coordinates are integers; a scale factor is a     *)
(* positive rational <<num, den>>.  Python's int() truncates toward zero.  *)
(***************************************************************************)
EXTENDS Integers, Sequences, FiniteSets, TLC

VARIABLES
    outputs,        \* the model output handed to postprocess_output, batch axis removed
    cands,          \* the candidate rows the tensor encodes, one row per candidate
    layout,         \* "NF": outputs is (num_candidates, features); "FN": (features, num_candidates)
    x_scale,        \* <<num, den>>
    y_scale,        \* <<num, den>>
    detections,     \* the list postprocess_output returned
    raised,         \* "none", or the exception postprocess_output raised
    dpc,            \* "ready" before the call, "done" after it
    \* CatEmotionAnalyzer.determine_emotion, called on its own
    eye_in,         \* eye_state argument
    mouth_in,       \* mouth_state argument
    tail_in,        \* tail_position argument
    emotion_out,    \* the value returned
    epc,            \* "ready" before the call, "done" after it
    \* AnalysisService.analyze_body_parts
    image_shape,    \* image.shape[:2]: <<height, width>>
    adetections,    \* the detections argument
    rois,           \* eye_roi, mouth_roi, tail_roi: the clamped box cropped, or None
    analysis_result,\* the AnalysisResult returned
    emotion,        \* the emotion returned, or None
    apc,            \* "ready" before the call, "done" after it
    \* one call of preprocess_image or of an analyzer, on its own
    fn,             \* the function called
    args,           \* its arguments (for an analyzer: the crop and what OpenCV measures on it)
    ret,            \* the value returned, or the exception raised
    upc,            \* "ready" before the call, "done" after it
    \* one request to POST /analyze-image or POST /detect-body-parts
    request,        \* the endpoint, the upload and what the collaborators give for it
    response,       \* the status and body of the response
    calls,          \* the collaborators the handler called, in order
    rpc,            \* "ready" before the request is handled, "done" after it
    \* the chat: the database table chat_messages, the workflow's checkpointer, the last call
    chat_messages,  \* the rows of chat_messages, in creation order
    checkpoint,     \* InMemorySaver: thread_id -> the message list saved by the workflow
    chat_call,      \* the last call handled: its arguments, response and what it did
    \* concurrent calls of UserService.get_or_create_user
    users,          \* the rows of the table users
    goc,            \* per call: its arguments, its position, the row it read, its result
    completed,      \* the calls that returned or raised, in that order
    \* concurrent analysis invocations on one DetectionService
    service_fields, \* the fields of the DetectionService instance shared by the calls
    invocations     \* per call: its input, its position, the fields it read, its results

dvars == <<outputs, cands, layout, x_scale, y_scale, detections, raised, dpc>>
evars == <<eye_in, mouth_in, tail_in, emotion_out, epc>>
avars == <<image_shape, adetections, rois, analysis_result, emotion, apc>>
uvars == <<fn, args, ret, upc>>
rvars == <<request, response, calls, rpc>>
cvars == <<chat_messages, checkpoint, chat_call>>
gvars == <<users, goc, completed>>
kvars == <<service_fields, invocations>>
vars == <<dvars, evars, avars, uvars, rvars, cvars, gvars, kvars>>

\* Python's None where a string is expected
None == "None"
\* Python's None where an image crop is expected
NoRoi == <<>>

\* the images analysed are ImageSide x ImageSide
ImageSide == 20

----------------------------------------------------------------------------
(* Generic helpers *)

Range(s) == {s[i] : i \in 1..Len(s)}

\* int(n / d) for d > 0: truncation toward zero
TruncDiv(n, d) == IF n >= 0 THEN n \div d ELSE -((-n) \div d)

Max2(a, b) == IF a >= b THEN a ELSE b
Min2(a, b) == IF a <= b THEN a ELSE b

\* numpy transpose(1, 0) of a matrix held as a sequence of rows
Transpose(m) == [j \in 1..Len(m[1]) |-> [i \in 1..Len(m) |-> m[i][j]]]

----------------------------------------------------------------------------
(* DetectionService.__init__ *)

\* conf_threshold = 0.25, in hundredths
conf_threshold == 25
\* iou_threshold = 0.45, in hundredths
iou_threshold == 45
class_names == <<"eye", "mouth", "tail">>

----------------------------------------------------------------------------
(* DetectionService.postprocess_output: one row *)

\* np.argmax(class_probs): the first index (0-based) of the maximum
ArgMax(class_probs) ==
    (CHOOSE i \in 1..Len(class_probs) :
        /\ \A j \in 1..Len(class_probs) : class_probs[j] <= class_probs[i]
        /\ \A j \in 1..(i - 1) : class_probs[j] < class_probs[i]) - 1

\* class_id of a row of ncols features
RowClassId(detection, ncols) ==
    IF ncols > 5 THEN ArgMax(SubSeq(detection, 6, ncols)) ELSE 0

RowConfMul(detection, ncols) ==
    IF ncols > 5
    THEN (detection[5] * detection[6 + RowClassId(detection, ncols)]) \div 100
    ELSE detection[5]

\* conf of a row: the class probability when there are class scores, else objectness
RowConf(detection, ncols) ==
    IF ncols > 5 THEN detection[6 + RowClassId(detection, ncols)] ELSE detection[5]

\* the bbox in original-image coordinates: [x1, y1, x2, y2]
RowBBox(detection, xs, ys) ==
    LET x_center == detection[1]
        y_center == detection[2]
        width    == detection[3]
        height   == detection[4]
    IN  << TruncDiv((2 * x_center - width) * xs[1], 2 * xs[2]),
           TruncDiv((2 * y_center - height) * ys[1], 2 * ys[2]),
           TruncDiv((2 * x_center + width) * xs[1], 2 * xs[2]),
           TruncDiv((2 * y_center + height) * ys[1], 2 * ys[2]) >>

\* self.class_names[class_id] if class_id < len(self.class_names) else f"class_{class_id}"
ClassName(class_id) ==
    IF class_id < Len(class_names)
    THEN class_names[class_id + 1]
    ELSE "class_" \o ToString(class_id)

KeepRowNoBoxFilter(detection, ncols, xs, ys) ==
    ~(RowConf(detection, ncols) < conf_threshold)

\* the row survives both `continue`s of the loop
KeepRow(detection, ncols, xs, ys) ==
    LET b == RowBBox(detection, xs, ys)
    IN  /\ ~(RowConf(detection, ncols) < conf_threshold)
        /\ ~(b[3] <= b[1] \/ b[4] <= b[2])

RowDetection(detection, ncols, xs, ys) ==
    [class      |-> ClassName(RowClassId(detection, ncols)),
     confidence |-> RowConf(detection, ncols),
     bbox       |-> RowBBox(detection, xs, ys)]

\* the loop over the rows: the detections appended, in row order
RECURSIVE DecodeRows(_, _, _, _, _)
DecodeRows(output, i, ncols, xs, ys) ==
    IF i > Len(output) THEN <<>>
    ELSE (IF KeepRow(output[i], ncols, xs, ys)
          THEN <<RowDetection(output[i], ncols, xs, ys)>>
          ELSE <<>>) \o DecodeRows(output, i + 1, ncols, xs, ys)

----------------------------------------------------------------------------
(* cv2.dnn.NMSBoxes(boxes, scores, score_threshold, nms_threshold) as       *)
(* _apply_nms calls it: each box is read as a rectangle (x, y, width,       *)
(* height), so the list [x1, y1, x2, y2] gives x = x1, y = y1, width = x2,  *)
(* height = y2.                                                             *)

RectArea(r) == r[3] * r[4]

\* area of the intersection (a & b) of two rectangles (x, y, width, height)
RectInterArea(a, b) ==
    LET x == Max2(a[1], b[1])
        y == Max2(a[2], b[2])
        w == Min2(a[1] + a[3], b[1] + b[3]) - x
        h == Min2(a[2] + a[4], b[2] + b[4]) - y
    IN  IF w <= 0 \/ h <= 0 THEN 0 ELSE w * h

\* rectOverlap(a, b) > nms_threshold, with rectOverlap = 1 - jaccardDistance
RectOverlapExceeds(a, b, thr) ==
    LET Aa  == RectArea(a)
        Ab  == RectArea(b)
        Aab == RectInterArea(a, b)
    IN  IF Aa + Ab <= 0 THEN TRUE
        ELSE Aab * 100 > thr * (Aa + Ab - Aab)

\* GetMaxScoreIndex: the indices whose score is > score_threshold, by
\* descending score, equal scores in index order (std::stable_sort)
RECURSIVE SortScoreDescend(_, _)
SortScoreDescend(scores, idxs) ==
    IF idxs = {} THEN <<>>
    ELSE LET top == CHOOSE i \in idxs :
                        \A j \in idxs : \/ scores[j] < scores[i]
                                        \/ (scores[j] = scores[i] /\ i <= j)
         IN  <<top>> \o SortScoreDescend(scores, idxs \ {top})

GetMaxScoreIndex(scores, score_threshold) ==
    SortScoreDescend(scores, {i \in 1..Len(scores) : scores[i] > score_threshold})

\* the greedy loop of NMSFast_: keep idx unless a kept box overlaps it by more than thr
RECURSIVE NMSFast(_, _, _, _, _)
NMSFast(boxes, order, k, kept, thr) ==
    IF k > Len(order) THEN kept
    ELSE LET idx  == order[k]
             keep == \A j \in 1..Len(kept) :
                        ~RectOverlapExceeds(boxes[idx], boxes[kept[j]], thr)
         IN  NMSFast(boxes, order, k + 1,
                     IF keep THEN Append(kept, idx) ELSE kept, thr)

\* the indices (1-based) returned, in the order returned
NMSBoxes(boxes, scores, score_threshold, nms_threshold) ==
    NMSFast(boxes, GetMaxScoreIndex(scores, score_threshold), 1, <<>>, nms_threshold)

----------------------------------------------------------------------------
(* DetectionService._apply_nms *)

_apply_nms(dets) ==
    IF dets = <<>> THEN <<>>
    ELSE LET boxes   == [i \in 1..Len(dets) |-> dets[i].bbox]
             scores  == [i \in 1..Len(dets) |-> dets[i].confidence]
             indices == NMSBoxes(boxes, scores, conf_threshold, iou_threshold)
         IN  [k \in 1..Len(indices) |-> dets[indices[k]]]

----------------------------------------------------------------------------
(* DetectionService.postprocess_output *)

CanonicalWrongWay(output) ==
    IF Len(output) > Len(output[1]) THEN Transpose(output) ELSE output

\* the canonical layout: transposed when shape[0] < shape[1]
Canonical(output) ==
    IF Len(output) < Len(output[1]) THEN Transpose(output) ELSE output

\* detection[0..4] is read of every row: a row shorter than 5 raises IndexError
RaisesIndexError(output) == Len(Canonical(output)[1]) < 5

postprocess_output(output, xs, ys) ==
    LET canon == Canonical(output)
    IN  _apply_nms(DecodeRows(canon, 1, Len(canon[1]), xs, ys))

----------------------------------------------------------------------------
(* The inputs of postprocess_output *)

\* at most this many candidates of a tensor carry chosen values; the others are zero rows
MaxCands == 2
\* a tensor has at most (features + ExtraCands) candidates
ExtraCands == 1

\* the number of class-score columns: none, one, the three of class_names, one more
ClassCounts == {0, 1, 3, 4}

\* [x_center, y_center, width, height] in the model's input space
\* two boxes that overlap and one that truncates to an empty box
BoxGeoms == {<<3, 5, 6, 10>>, <<5, 5, 6, 10>>, <<0, 5, 1, 10>>}

ScoreLevels == {10, 25, 40, 60}

\* class scores: one column at a level, the others at 10
ScoreVecs(K) ==
    {[i \in 1..K |-> IF i = p THEN hi ELSE 10] : p \in 1..K, hi \in ScoreLevels}

ObjLevels(K) == IF K = 0 THEN ScoreLevels ELSE {50}

Rows(K) ==
    {g \o <<o>> \o sv : g \in BoxGeoms, o \in ObjLevels(K), sv \in ScoreVecs(K)}

ZeroRow(K) == [i \in 1..(5 + K) |-> 0]

\* sequences of rows of length 0..n
RECURSIVE SeqsUpTo(_, _)
SeqsUpTo(S, n) ==
    IF n = 0 THEN {<<>>}
    ELSE LET shorter == SeqsUpTo(S, n - 1)
         IN  shorter \cup {Append(q, r) : q \in {t \in shorter : Len(t) = n - 1}, r \in S}

\* a tensor of K + 5 + ExtraCands candidates (more candidates than features),
\* the first ones chosen, the others zero
RichCands(K) ==
    {q \o [i \in 1..(K + 5 + ExtraCands - Len(q)) |-> ZeroRow(K)] : q \in SeqsUpTo(Rows(K), MaxCands)}

\* two candidates that pass the filters and do not overlap
LayoutRows(K) ==
    {<<3, 5, 6, 10, 90>> \o [i \in 1..K |-> IF i = 1 THEN 60 ELSE 10],
     <<20, 20, 4, 4, 30>> \o [i \in 1..K |-> IF i = K THEN 40 ELSE 10]}

\* tensors of 1 .. K + 5 + ExtraCands candidates: fewer than, as many as, more than features
LayoutCands(K) == SeqsUpTo(LayoutRows(K), K + 5 + ExtraCands) \ {<<>>}

\* the boxes of the three-part tensors, [x_center, y_center, width, height] in the
\* 640 x 640 input space: no two of them share a pixel
TripleGeoms ==
    {<<100, 100, 20, 10>>, <<125, 100, 20, 10>>, <<100, 300, 20, 10>>, <<400, 400, 40, 40>>}

TripleScores == {40, 60}

\* a candidate of class c (1-based column) with class score s
TripleRow(g, c, s) == g \o <<50>> \o [i \in 1..3 |-> IF i = c THEN s ELSE 10]

\* one eye, one mouth and one tail candidate, then zero rows up to
\* 8 + ExtraCands candidates
TripleCands ==
    {<<TripleRow(g[1], 1, sc[1]), TripleRow(g[2], 2, sc[2]), TripleRow(g[3], 3, sc[3])>>
        \o [i \in 1..(5 + ExtraCands) |-> ZeroRow(3)] :
        g \in {t \in TripleGeoms \X TripleGeoms \X TripleGeoms :
                    t[1] # t[2] /\ t[1] # t[3] /\ t[2] # t[3]},
        sc \in TripleScores \X TripleScores \X TripleScores}

\* (x_scale, y_scale)
Scales == {<< <<1, 1>>, <<1, 1>> >>, << <<3, 2>>, <<1, 2>> >>}

DInit ==
    /\ \E K \in ClassCounts :
          \/ cands \in RichCands(K) /\ layout = "FN"
          \/ cands \in LayoutCands(K) /\ layout \in {"NF", "FN"}
          \/ K = 3 /\ cands \in TripleCands /\ layout \in {"NF", "FN"}
    /\ outputs = IF layout = "FN" THEN Transpose(cands) ELSE cands
    /\ \E sc \in Scales : x_scale = sc[1] /\ y_scale = sc[2]
    /\ detections = <<>>
    /\ raised = "none"
    /\ dpc = "ready"
    /\ eye_in = None /\ mouth_in = None /\ tail_in = None
    /\ emotion_out = None /\ epc = "idle"
    /\ image_shape = <<ImageSide, ImageSide>> /\ adetections = <<>>
    /\ rois = [eye |-> NoRoi, mouth |-> NoRoi, tail |-> NoRoi]
    /\ analysis_result = [eye_state |-> None, mouth_state |-> None,
                          tail_position |-> None, tail_angle |-> {}]
    /\ emotion = None /\ apc = "idle"
    /\ fn = "none" /\ args = <<>> /\ ret = None /\ upc = "idle"
    /\ request = <<>> /\ response = <<>> /\ calls = <<>> /\ rpc = "idle"
    /\ chat_messages = <<>> /\ checkpoint = <<>> /\ chat_call = <<>>
    /\ users = {} /\ goc = <<>> /\ completed = <<>>
    /\ service_fields = <<>> /\ invocations = <<>>

\* detections = self.postprocess_output(output, x_scale, y_scale)
Postprocess ==
    /\ dpc = "ready"
    /\ dpc' = "done"
    /\ IF RaisesIndexError(outputs)
       THEN raised' = "IndexError" /\ detections' = <<>>
       ELSE raised' = "none" /\ detections' = postprocess_output(outputs, x_scale, y_scale)
    /\ UNCHANGED <<outputs, cands, layout, x_scale, y_scale, evars, avars, uvars, rvars, cvars, gvars, kvars>>

DNext == Postprocess

----------------------------------------------------------------------------
(* CatEmotionAnalyzer *)

\* EMOTION_MAPPING, in definition order (the iteration order of the dict)
EMOTION_MAPPING ==
    << [key |-> <<"wide_open", "closed", "up">>,   emotion |-> "alert"],
       [key |-> <<"wide_open", "closed", "down">>, emotion |-> "fearful"],
       [key |-> <<"normal", "closed", "up">>,      emotion |-> "content"],
       [key |-> <<"normal", "open", "up">>,        emotion |-> "playful"],
       [key |-> <<"closed", "closed", "down">>,    emotion |-> "sleepy"],
       [key |-> <<"wide_open", "open", "up">>,     emotion |-> "excited"],
       [key |-> <<"wide_open", "open", "down">>,   emotion |-> "aggressive"] >>

\* key in EMOTION_MAPPING
ExactRows(eye_state, mouth_state, tail_position) ==
    {i \in 1..Len(EMOTION_MAPPING) :
        EMOTION_MAPPING[i].key = <<eye_state, mouth_state, tail_position>>}

PartialRowsNone(eye_state, mouth_state) == {}

\* the rows the partial-match loop accepts
PartialRows(eye_state, mouth_state) ==
    {i \in 1..Len(EMOTION_MAPPING) :
        /\ eye_state = EMOTION_MAPPING[i].key[1]
        /\ mouth_state = EMOTION_MAPPING[i].key[2]}

SetMin(S) == CHOOSE i \in S : \A j \in S : i <= j
SetMax(S) == CHOOSE i \in S : \A j \in S : i >= j

DefaultEmotionTailFirst(eye_state, mouth_state, tail_position) ==
    IF eye_state = "wide_open" /\ mouth_state = "open" THEN "excited"
    ELSE IF tail_position = "down" THEN "submissive"
    ELSE IF eye_state = "closed" THEN "sleepy"
    ELSE "neutral"

\* the defaults based on individual parts
DefaultEmotion(eye_state, mouth_state, tail_position) ==
    IF eye_state = "wide_open" /\ mouth_state = "open" THEN "excited"
    ELSE IF eye_state = "closed" THEN "sleepy"
    ELSE IF tail_position = "down" THEN "submissive"
    ELSE "neutral"

determine_emotion_last_partial(eye_state, mouth_state, tail_position) ==
    IF ExactRows(eye_state, mouth_state, tail_position) # {}
    THEN EMOTION_MAPPING[SetMin(ExactRows(eye_state, mouth_state, tail_position))].emotion
    ELSE IF PartialRows(eye_state, mouth_state) # {}
    THEN EMOTION_MAPPING[SetMax(PartialRows(eye_state, mouth_state))].emotion
    ELSE DefaultEmotion(eye_state, mouth_state, tail_position)

determine_emotion(eye_state, mouth_state, tail_position) ==
    IF ExactRows(eye_state, mouth_state, tail_position) # {}
    THEN EMOTION_MAPPING[SetMin(ExactRows(eye_state, mouth_state, tail_position))].emotion
    ELSE IF PartialRows(eye_state, mouth_state) # {}
    THEN EMOTION_MAPPING[SetMin(PartialRows(eye_state, mouth_state))].emotion
    ELSE DefaultEmotion(eye_state, mouth_state, tail_position)

\* the strings the call is tried on: the analyzers' values and one foreign string
EyeStrings == {"wide_open", "normal", "closed", "unknown", "other"}
MouthStrings == {"open", "closed", "unknown", "other"}
TailStrings == {"up", "down", "left", "right", "unknown", "other"}

EInit ==
    /\ eye_in \in EyeStrings
    /\ mouth_in \in MouthStrings
    /\ tail_in \in TailStrings
    /\ emotion_out = None
    /\ epc = "ready"
    /\ outputs = <<>> /\ cands = <<>> /\ layout = "NF"
    /\ x_scale = <<1, 1>> /\ y_scale = <<1, 1>>
    /\ detections = <<>> /\ raised = "none" /\ dpc = "idle"
    /\ image_shape = <<ImageSide, ImageSide>> /\ adetections = <<>>
    /\ rois = [eye |-> NoRoi, mouth |-> NoRoi, tail |-> NoRoi]
    /\ analysis_result = [eye_state |-> None, mouth_state |-> None,
                          tail_position |-> None, tail_angle |-> {}]
    /\ emotion = None /\ apc = "idle"
    /\ fn = "none" /\ args = <<>> /\ ret = None /\ upc = "idle"
    /\ request = <<>> /\ response = <<>> /\ calls = <<>> /\ rpc = "idle"
    /\ chat_messages = <<>> /\ checkpoint = <<>> /\ chat_call = <<>>
    /\ users = {} /\ goc = <<>> /\ completed = <<>>
    /\ service_fields = <<>> /\ invocations = <<>>

\* CatEmotionAnalyzer.determine_emotion(eye_state, mouth_state, tail_position)
DetermineEmotion ==
    /\ epc = "ready"
    /\ epc' = "done"
    /\ emotion_out' = determine_emotion(eye_in, mouth_in, tail_in)
    /\ UNCHANGED <<eye_in, mouth_in, tail_in, dvars, avars, uvars, rvars, cvars, gvars, kvars>>

ENext == DetermineEmotion

----------------------------------------------------------------------------
(* services.image_service.extract_roi *)

\* where a slice bound a falls on an axis of n elements: a negative bound counts
\* from the end, and the bound is kept inside 0..n
SliceIndex(n, a) == IF a < 0 THEN Max2(0, a + n) ELSE Min2(a, n)

\* image[y1:y2, x1:x2]: the box [x1, y1, x2, y2] of the pixels the slice holds
\* (an axis whose stop is not after its start holds none)
Crop(shape, x1, y1, x2, y2) ==
    << SliceIndex(shape[2], x1),
       SliceIndex(shape[1], y1),
       Max2(SliceIndex(shape[2], x1), SliceIndex(shape[2], x2)),
       Max2(SliceIndex(shape[1], y1), SliceIndex(shape[1], y2)) >>

extract_roi_unclamped(shape, bbox) ==
    IF Len(bbox) # 4 THEN NoRoi
    ELSE IF bbox[3] <= bbox[1] \/ bbox[4] <= bbox[2] THEN NoRoi
    ELSE Crop(shape, bbox[1], bbox[2], bbox[3], bbox[4])

\* the box [x1, y1, x2, y2] of the pixels returned, or NoRoi for None
extract_roi(shape, bbox) ==
    IF Len(bbox) # 4 THEN NoRoi
    ELSE LET x1 == Max2(0, bbox[1])
             y1 == Max2(0, bbox[2])
             x2 == Min2(shape[2], bbox[3])
             y2 == Min2(shape[1], bbox[4])
         IN  IF x2 <= x1 \/ y2 <= y1 THEN NoRoi ELSE Crop(shape, x1, y1, x2, y2)

\* roi.shape[:2] of a crop: <<rows, columns>>
RoiShape(roi) == <<roi[4] - roi[2], roi[3] - roi[1]>>

----------------------------------------------------------------------------
(* The analyzers.  What OpenCV measures on the crop is an input: m.          *)

analyze_eye_wide_at_boundary(roi, m) ==
    LET white_pixels == m.white
        dark_pixels  == RoiShape(roi)[1] * RoiShape(roi)[2] - m.white
    IN  IF ~m.contours THEN "unknown"
        ELSE IF dark_pixels = 0 THEN "closed"
        ELSE IF 2 * white_pixels >= 3 * dark_pixels THEN "wide_open"
        ELSE IF 2 * white_pixels > dark_pixels THEN "normal"
        ELSE "closed"

\* EyeAnalyzer.analyze_eye on a non-empty crop.  m.contours: findContours found
\* one; m.white: the pixels of eye_thresh above 127 (the others are dark)
analyze_eye(roi, m) ==
    LET white_pixels == m.white
        dark_pixels  == RoiShape(roi)[1] * RoiShape(roi)[2] - m.white
    IN  IF ~m.contours THEN "unknown"
        ELSE IF dark_pixels = 0 THEN "closed"              \* ratio = 0
        ELSE IF 2 * white_pixels > 3 * dark_pixels THEN "wide_open"
        ELSE IF 2 * white_pixels > dark_pixels THEN "normal"
        ELSE "closed"

\* cv2.threshold(img, 0, 255, THRESH_BINARY + THRESH_OTSU) on an image whose every
\* pixel is v: Otsu's threshold of a single grey level is 0, so a pixel becomes 255
\* when v > 0 and 0 otherwise
ThresholdOtsuUniform(v) == IF v > 0 THEN 255 ELSE 0

\* what analyze_eye measures on a crop whose every pixel has the grey level v
UniformEyeMeasure(roi, v) ==
    LET otsu       == ThresholdOtsuUniform(v)
        \* if np.mean(gray) > 127: thresh = cv2.bitwise_not(thresh)
        thresh     == IF v > 127 THEN 255 - otsu ELSE otsu
        \* a crop that is 255 everywhere has one contour, its border, and the mask
        \* drawn from it is the whole crop: masked_eye is gray
        masked_eye == v
        eye_thresh == ThresholdOtsuUniform(masked_eye)
    IN  [contours |-> thresh # 0,
         white    |-> IF eye_thresh > 127 THEN RoiShape(roi)[1] * RoiShape(roi)[2] ELSE 0]

\* Counter(q)[v]
Count(q, v) == Cardinality({i \in 1..Len(q) : q[i] = v})

\* where v was first counted: the Counter keeps its keys in that order
FirstIndex(q, v) == SetMin({i \in 1..Len(q) : q[i] = v})

least_common_1(q) ==
    CHOOSE v \in Range(q) :
        \A u \in Range(q) :
            \/ Count(q, u) > Count(q, v)
            \/ (Count(q, u) = Count(q, v) /\ FirstIndex(q, v) <= FirstIndex(q, u))

\* Counter(q).most_common(1)[0][0] for a non-empty q: the value counted most often,
\* the first counted among equals
most_common_1(q) ==
    CHOOSE v \in Range(q) :
        \A u \in Range(q) :
            \/ Count(q, u) < Count(q, v)
            \/ (Count(q, u) = Count(q, v) /\ FirstIndex(q, v) <= FirstIndex(q, u))

\* EyeAnalyzer.analyze_eyes_behavior (Counter[str, int] is called like Counter)
analyze_eyes_behavior(eye_states) ==
    IF eye_states = <<>> THEN "unknown" ELSE most_common_1(eye_states)

\* MouthAnalyzer.analyze_mouth_behavior
analyze_mouth_behavior(mouth_states) ==
    IF mouth_states = <<>> THEN "unknown" ELSE most_common_1(mouth_states)

\* TailAnalyzer.analyze_tail_behavior
analyze_tail_behavior(tail_positions) ==
    IF tail_positions = <<>> THEN "unknown" ELSE most_common_1(tail_positions)

SeqMax(q) == CHOOSE v \in Range(q) : \A u \in Range(q) : u <= v

\* MouthAnalyzer.analyze_mouth on a non-empty crop.  m: the contourArea of each
\* contour found on the edge map
analyze_mouth(roi, m) ==
    LET large_contours == {i \in 1..Len(m) : m[i] > 50}
        total_area     == RoiShape(roi)[1] * RoiShape(roi)[2]
    IN  IF m = <<>> THEN "closed"
        ELSE IF Cardinality(large_contours) > 2 THEN "open"
        ELSE IF 10 * SeqMax(m) > total_area THEN "open"
        ELSE "closed"

detect_tail_vertical_when_equal(roi, m) ==
    LET angle == IF m.angle < -45 THEN m.angle + 90 ELSE m.angle
        vertical == m.h * RoiShape(roi)[2] >= m.w * RoiShape(roi)[1]
    IN  IF ~m.contours THEN [position |-> "unknown", angle |-> 0]
        ELSE [position |-> IF vertical
                           THEN (IF angle < 45 THEN "up" ELSE "down")
                           ELSE (IF angle < 45 THEN "left" ELSE "right"),
              angle    |-> angle]

\* TailAnalyzer.detect_tail on a non-empty crop.  m.contours: findContours found
\* one; m.w, m.h: boundingRect of the largest; m.angle: minAreaRect's angle
detect_tail(roi, m) ==
    LET angle == IF m.angle < -45 THEN m.angle + 90 ELSE m.angle
        \* height_ratio > width_ratio, with h / rows and w / columns
        vertical == m.h * RoiShape(roi)[2] > m.w * RoiShape(roi)[1]
    IN  IF ~m.contours THEN [position |-> "unknown", angle |-> 0]
        ELSE [position |-> IF vertical
                           THEN (IF angle < 45 THEN "up" ELSE "down")
                           ELSE (IF angle < 45 THEN "left" ELSE "right"),
              angle    |-> angle]

----------------------------------------------------------------------------
(* AnalysisService.analyze_body_parts *)

\* [d for d in detections if d["class"] == c]
OfClass(dets, c) == SelectSeq(dets, LAMBDA d : d.class = c)

BestLastOfTies(q) ==
    q[SetMax({i \in 1..Len(q) : \A j \in 1..Len(q) : q[j].confidence <= q[i].confidence})]

\* max(q, key=lambda x: x["confidence"]): the first of the most confident
Best(q) ==
    q[SetMin({i \in 1..Len(q) : \A j \in 1..Len(q) : q[j].confidence <= q[i].confidence})]

\* the crop of the best detection of class c, or None when there is none
PartRoi(shape, dets, c) ==
    IF OfClass(dets, c) = <<>> THEN NoRoi
    ELSE extract_roi(shape, Best(OfClass(dets, c)).bbox)

\* the truth test: None is false, every non-empty string is true
Fuse(eye_state, mouth_state, tail_position) ==
    IF eye_state # None /\ mouth_state # None /\ tail_position # None
    THEN determine_emotion(eye_state, mouth_state, tail_position)
    ELSE None

\* at most this many detections are handed to analyze_body_parts
MaxDets == 3

\* confidences above conf_threshold, boxes with x2 > x1 and y2 > y1: inside the
\* image (at two confidences), across its border, outside it; and a bbox of 3 elements
DetInputs ==
    {[class |-> c, confidence |-> cb[1], bbox |-> cb[2]] :
        c \in Range(class_names),
        cb \in {<<60, <<2, 2, 12, 12>> >>, <<30, <<2, 2, 12, 12>> >>,
                <<60, <<-5, 10, 5, 25>> >>, <<60, <<25, 0, 30, 10>> >>,
                <<60, <<2, 2, 12>> >>}}

EyeMeasures(roi) ==
    {[contours |-> FALSE, white |-> 0]}
        \cup {[contours |-> TRUE, white |-> w] :
                w \in {0, (3 * RoiShape(roi)[1] * RoiShape(roi)[2]) \div 4}}

MouthMeasures == {<<>>, <<8>>, <<60, 60, 60>>}

TailMeasures(roi) ==
    {[contours |-> FALSE, w |-> 0, h |-> 0, angle |-> 0]}
        \cup {[contours |-> TRUE, w |-> RoiShape(roi)[2], h |-> hh, angle |-> a] :
                hh \in {1, RoiShape(roi)[1]}, a \in {-90, 90}}

AInit ==
    /\ image_shape = <<ImageSide, ImageSide>>
    /\ adetections \in SeqsUpTo(DetInputs, MaxDets)
    /\ rois = [eye |-> NoRoi, mouth |-> NoRoi, tail |-> NoRoi]
    /\ analysis_result = [eye_state |-> None, mouth_state |-> None,
                          tail_position |-> None, tail_angle |-> {}]
    /\ emotion = None
    /\ apc = "ready"
    /\ outputs = <<>> /\ cands = <<>> /\ layout = "NF"
    /\ x_scale = <<1, 1>> /\ y_scale = <<1, 1>>
    /\ detections = <<>> /\ raised = "none" /\ dpc = "idle"
    /\ eye_in = None /\ mouth_in = None /\ tail_in = None
    /\ emotion_out = None /\ epc = "idle"
    /\ fn = "none" /\ args = <<>> /\ ret = None /\ upc = "idle"
    /\ request = <<>> /\ response = <<>> /\ calls = <<>> /\ rpc = "idle"
    /\ chat_messages = <<>> /\ checkpoint = <<>> /\ chat_call = <<>>
    /\ users = {} /\ goc = <<>> /\ completed = <<>>
    /\ service_fields = <<>> /\ invocations = <<>>

\* what is measured on a crop that is None: nothing
EyeMeasuresOf(roi) == IF roi = NoRoi THEN {None} ELSE EyeMeasures(roi)
MouthMeasuresOf(roi) == IF roi = NoRoi THEN {None} ELSE MouthMeasures
TailMeasuresOf(roi) == IF roi = NoRoi THEN {None} ELSE TailMeasures(roi)

\* AnalysisService.analyze_body_parts(image, detections), with what OpenCV measures
\* on the eye, mouth and tail crops: the crops, the AnalysisResult and the emotion
analyze_body_parts(shape, dets, me, mm, mt) ==
    LET eye_roi       == PartRoi(shape, dets, "eye")
        mouth_roi     == PartRoi(shape, dets, "mouth")
        tail_roi      == PartRoi(shape, dets, "tail")
        eye_state     == IF eye_roi = NoRoi THEN None ELSE analyze_eye(eye_roi, me)
        mouth_state   == IF mouth_roi = NoRoi THEN None ELSE analyze_mouth(mouth_roi, mm)
        tail_position == IF tail_roi = NoRoi THEN None ELSE detect_tail(tail_roi, mt).position
        tail_angle    == IF tail_roi = NoRoi THEN {} ELSE {detect_tail(tail_roi, mt).angle}
    IN  [rois            |-> [eye |-> eye_roi, mouth |-> mouth_roi, tail |-> tail_roi],
         analysis_result |-> [eye_state |-> eye_state,
                              mouth_state |-> mouth_state,
                              tail_position |-> tail_position,
                              tail_angle |-> tail_angle],
         emotion         |-> Fuse(eye_state, mouth_state, tail_position)]

\* analysis_result, emotion = AnalysisService.analyze_body_parts(image, detections)
AnalyzeBodyParts ==
    /\ apc = "ready"
    /\ apc' = "done"
    /\ \E me \in EyeMeasuresOf(PartRoi(image_shape, adetections, "eye")),
          mm \in MouthMeasuresOf(PartRoi(image_shape, adetections, "mouth")),
          mt \in TailMeasuresOf(PartRoi(image_shape, adetections, "tail")) :
            LET r == analyze_body_parts(image_shape, adetections, me, mm, mt)
            IN  /\ rois' = r.rois
                /\ analysis_result' = r.analysis_result
                /\ emotion' = r.emotion
    /\ UNCHANGED <<image_shape, adetections, dvars, evars, uvars, rvars, cvars, gvars, kvars>>

ANext == AnalyzeBodyParts

----------------------------------------------------------------------------
(* DetectionService.preprocess_image *)

\* self.input_width, self.input_height: the model's input size
input_width == 640
input_height == 640

\* what preprocess_image does on an image of shape <<original_height, original_width>>:
\* the exception raised, or the size (new_width, new_height) the image is resized
\* to and the scales returned.  scale is the rational <<num, den>>; int() of a
\* non-negative value is the floor
preprocess_image(shape) ==
    LET original_height == shape[1]
        original_width  == shape[2]
        \* min(input_width / original_width, input_height / original_height)
        scale      == IF input_width * original_height <= input_height * original_width
                      THEN <<input_width, original_width>>
                      ELSE <<input_height, original_height>>
        new_width  == (original_width * scale[1]) \div scale[2]
        new_height == (original_height * scale[1]) \div scale[2]
    IN  IF original_width = 0 \/ original_height = 0
        THEN [raised |-> "ZeroDivisionError", resized |-> <<>>,
              x_scale |-> <<>>, y_scale |-> <<>>]
        ELSE IF new_width = 0 \/ new_height = 0
        THEN [raised |-> "cv2.error", resized |-> <<>>,      \* cv2.resize to an empty size
              x_scale |-> <<>>, y_scale |-> <<>>]
        ELSE [raised |-> "none", resized |-> <<new_width, new_height>>,
              x_scale |-> <<original_width, new_width>>,
              y_scale |-> <<original_height, new_height>>]

\* the heights and widths of the images preprocess_image is tried on; on them
\* int() of the float product equals the floor of the exact product
ImageDims == {0, 1, 2, 3, 5, 7, 100, 480, 640, 641, 1000, 1280, 2000}

----------------------------------------------------------------------------
(* One call of preprocess_image or of an analyzer *)

\* the crops an analyzer is called on: r rows by c columns
RoiSides == {1, 2, 3, 5}
UnitRois == {<<0, 0, c, r>> : r \in RoiSides, c \in RoiSides}

\* no contour, or a contour and any number of white pixels of eye_thresh
EyeUnitMeasures(roi) ==
    {[contours |-> FALSE, white |-> 0]}
        \cup {[contours |-> TRUE, white |-> w] :
                w \in 0..(RoiShape(roi)[1] * RoiShape(roi)[2])}

\* the grey level of a crop of one colour: black, a grey, white
GrayLevels == {0, 100, 255}

\* rect[2] of cv2.minAreaRect, in degrees
TailAngles == {-90, -60, -46, -45, -30, 0, 30, 44, 45, 60, 90}

\* no contour, or a contour with its bounding rectangle (w by h, inside the crop)
\* and the angle of its minimum-area rectangle
TailUnitMeasures(roi) ==
    {[contours |-> FALSE, w |-> 0, h |-> 0, angle |-> 0]}
        \cup {[contours |-> TRUE, w |-> w, h |-> h, angle |-> a] :
                w \in 1..RoiShape(roi)[2], h \in 1..RoiShape(roi)[1], a \in TailAngles}

\* a sequence of states handed to an aggregation has at most this many frames
MaxFrames == 3

UInit ==
    /\ \/ /\ fn = "preprocess_image"
          /\ \E h \in ImageDims, w \in ImageDims : args = [shape |-> <<h, w>>]
       \/ /\ fn = "analyze_eyes_behavior"
          /\ args \in SeqsUpTo(EyeStrings, MaxFrames)
       \/ /\ fn = "analyze_mouth_behavior"
          /\ args \in SeqsUpTo(MouthStrings, MaxFrames)
       \/ /\ fn = "analyze_tail_behavior"
          /\ args \in SeqsUpTo(TailStrings, MaxFrames)
       \/ /\ fn = "detect_tail"
          /\ \E roi \in UnitRois :
                \E m \in TailUnitMeasures(roi) : args = [roi |-> roi, m |-> m]
       \/ /\ fn = "analyze_eye"
          /\ \E roi \in UnitRois :
                \/ \E m \in EyeUnitMeasures(roi) : args = [roi |-> roi, gray |-> {}, m |-> m]
                \/ \E v \in GrayLevels :
                      args = [roi |-> roi, gray |-> {v}, m |-> UniformEyeMeasure(roi, v)]
    /\ ret = None
    /\ upc = "ready"
    /\ outputs = <<>> /\ cands = <<>> /\ layout = "NF"
    /\ x_scale = <<1, 1>> /\ y_scale = <<1, 1>>
    /\ detections = <<>> /\ raised = "none" /\ dpc = "idle"
    /\ eye_in = None /\ mouth_in = None /\ tail_in = None
    /\ emotion_out = None /\ epc = "idle"
    /\ image_shape = <<ImageSide, ImageSide>> /\ adetections = <<>>
    /\ rois = [eye |-> NoRoi, mouth |-> NoRoi, tail |-> NoRoi]
    /\ analysis_result = [eye_state |-> None, mouth_state |-> None,
                          tail_position |-> None, tail_angle |-> {}]
    /\ emotion = None /\ apc = "idle"
    /\ request = <<>> /\ response = <<>> /\ calls = <<>> /\ rpc = "idle"
    /\ chat_messages = <<>> /\ checkpoint = <<>> /\ chat_call = <<>>
    /\ users = {} /\ goc = <<>> /\ completed = <<>>
    /\ service_fields = <<>> /\ invocations = <<>>

\* preprocessed, x_scale, y_scale = self.preprocess_image(image)
PreprocessImage ==
    /\ upc = "ready" /\ fn = "preprocess_image"
    /\ upc' = "done"
    /\ ret' = preprocess_image(args.shape)
    /\ UNCHANGED <<fn, args, dvars, evars, avars, rvars, cvars, gvars, kvars>>

\* eye_state = EyeAnalyzer.analyze_eye(eye_roi)
AnalyzeEye ==
    /\ upc = "ready" /\ fn = "analyze_eye"
    /\ upc' = "done"
    /\ ret' = analyze_eye(args.roi, args.m)
    /\ UNCHANGED <<fn, args, dvars, evars, avars, rvars, cvars, gvars, kvars>>

\* EyeAnalyzer.analyze_eyes_behavior(eye_states)
AnalyzeEyesBehavior ==
    /\ upc = "ready" /\ fn = "analyze_eyes_behavior"
    /\ upc' = "done"
    /\ ret' = analyze_eyes_behavior(args)
    /\ UNCHANGED <<fn, args, dvars, evars, avars, rvars, cvars, gvars, kvars>>

\* MouthAnalyzer.analyze_mouth_behavior(mouth_states)
AnalyzeMouthBehavior ==
    /\ upc = "ready" /\ fn = "analyze_mouth_behavior"
    /\ upc' = "done"
    /\ ret' = analyze_mouth_behavior(args)
    /\ UNCHANGED <<fn, args, dvars, evars, avars, rvars, cvars, gvars, kvars>>

\* TailAnalyzer.analyze_tail_behavior(tail_positions)
AnalyzeTailBehavior ==
    /\ upc = "ready" /\ fn = "analyze_tail_behavior"
    /\ upc' = "done"
    /\ ret' = analyze_tail_behavior(args)
    /\ UNCHANGED <<fn, args, dvars, evars, avars, rvars, cvars, gvars, kvars>>

\* tail_analysis = TailAnalyzer.detect_tail(tail_roi)
DetectTail ==
    /\ upc = "ready" /\ fn = "detect_tail"
    /\ upc' = "done"
    /\ ret' = detect_tail(args.roi, args.m)
    /\ UNCHANGED <<fn, args, dvars, evars, avars, rvars, cvars, gvars, kvars>>

UNext ==
    \/ PreprocessImage
    \/ DetectTail
    \/ AnalyzeEye
    \/ AnalyzeEyesBehavior
    \/ AnalyzeMouthBehavior
    \/ AnalyzeTailBehavior

----------------------------------------------------------------------------
(* routes.analysis.analyze_image and routes.detection.detect_body_parts *)

\* file.content_type as <<prefix, rest>>: <<>> is None, <<"">> the empty string
ContentTypes ==
    {<<>>, <<"">>, <<"image/", "png">>, <<"image/", "jpeg">>, <<"text/", "plain">>,
     <<"imag", "e">>}

\* not (not file.content_type or not file.content_type.startswith('image/'))
IsImageContentType(ct) == ct # <<>> /\ ct # <<"">> /\ ct[1] = "image/"

\* the uploaded bytes: "empty" (cv2.imdecode raises cv2.error on an empty buffer),
\* "garbage" (cv2.imdecode returns None), "image" (an image is decoded)
Uploads == {"empty", "garbage", "image"}

\* what detector.detect(image) does for the request: raises, or returns detections
DetectOutcomes ==
    {[raised |-> TRUE, detections |-> <<>>]}
        \cup {[raised |-> FALSE, detections |-> q] :
                q \in SeqsUpTo({d \in DetInputs : Len(d.bbox) = 4}, 1)}

\* an exception raised inside the try block
HTTPException(status_code, detail) ==
    [type |-> "HTTPException", status_code |-> status_code, detail |-> detail]
OtherException(name) == [type |-> name, status_code |-> 0, detail |-> name]

except_all_as_500(exc) ==
    [status_code |-> 500, detail |-> "Error processing image: " \o exc.detail]

\* except HTTPException: raise
\* except Exception as e: raise HTTPException(status_code=500, ...)
except_clauses(exc) ==
    IF exc.type = "HTTPException"
    THEN [status_code |-> exc.status_code, detail |-> exc.detail]
    ELSE [status_code |-> 500, detail |-> "Error processing image: " \o exc.detail]

\* [BodyPartDetection(class_name=d["class"], confidence=..., bbox=...) for d in detections]
formatted_detections(dets) ==
    [i \in 1..Len(dets) |-> [class_name |-> dets[i].class,
                             confidence |-> dets[i].confidence,
                             bbox       |-> dets[i].bbox]]

RInit ==
    /\ \E ep \in {"analyze-image", "detect-body-parts"}, ct \in ContentTypes,
          up \in Uploads, dt \in DetectOutcomes :
          request = [endpoint |-> ep, content_type |-> ct, upload |-> up, detect |-> dt]
    /\ response = <<>>
    /\ calls = <<>>
    /\ rpc = "ready"
    /\ image_shape = <<ImageSide, ImageSide>> /\ adetections = <<>>
    /\ rois = [eye |-> NoRoi, mouth |-> NoRoi, tail |-> NoRoi]
    /\ analysis_result = [eye_state |-> None, mouth_state |-> None,
                          tail_position |-> None, tail_angle |-> {}]
    /\ emotion = None /\ apc = "idle"
    /\ outputs = <<>> /\ cands = <<>> /\ layout = "NF"
    /\ x_scale = <<1, 1>> /\ y_scale = <<1, 1>>
    /\ detections = <<>> /\ raised = "none" /\ dpc = "idle"
    /\ eye_in = None /\ mouth_in = None /\ tail_in = None
    /\ emotion_out = None /\ epc = "idle"
    /\ fn = "none" /\ args = <<>> /\ ret = None /\ upc = "idle"
    /\ chat_messages = <<>> /\ checkpoint = <<>> /\ chat_call = <<>>
    /\ users = {} /\ goc = <<>> /\ completed = <<>>
    /\ service_fields = <<>> /\ invocations = <<>>

\* @router.post("/analyze-image")
AnalyzeImage ==
    /\ rpc = "ready" /\ request.endpoint = "analyze-image"
    /\ rpc' = "done"
    /\ IF ~IsImageContentType(request.content_type)
       THEN /\ response' = [status_code |-> 400, detail |-> "File must be an image"]
            /\ calls' = <<>>
       ELSE IF request.upload = "empty"
       THEN /\ response' = except_clauses(OtherException("cv2.error"))
            /\ calls' = <<"bytes_to_cv2_image">>
       ELSE IF request.upload = "garbage"
       THEN /\ response' = except_clauses(HTTPException(400, "Could not decode image"))
            /\ calls' = <<"bytes_to_cv2_image">>
       ELSE IF request.detect.raised
       THEN /\ response' = except_clauses(OtherException("Exception"))
            /\ calls' = <<"bytes_to_cv2_image", "detect">>
       ELSE /\ calls' = <<"bytes_to_cv2_image", "detect", "analyze_body_parts">>
            /\ \E me \in EyeMeasuresOf(PartRoi(image_shape, request.detect.detections, "eye")),
                  mm \in MouthMeasuresOf(PartRoi(image_shape, request.detect.detections, "mouth")),
                  mt \in TailMeasuresOf(PartRoi(image_shape, request.detect.detections, "tail")) :
                   LET r == analyze_body_parts(image_shape, request.detect.detections,
                                               me, mm, mt)
                   IN  response' =
                           [status_code |-> 200,
                            detections  |-> formatted_detections(request.detect.detections),
                            analysis    |-> r.analysis_result,
                            emotion     |-> r.emotion]
    /\ UNCHANGED <<request, dvars, evars, avars, uvars, cvars, gvars, kvars>>

\* @router.post("/detect-body-parts")
DetectBodyParts ==
    /\ rpc = "ready" /\ request.endpoint = "detect-body-parts"
    /\ rpc' = "done"
    /\ IF ~IsImageContentType(request.content_type)
       THEN /\ response' = [status_code |-> 400, detail |-> "File must be an image"]
            /\ calls' = <<>>
       ELSE IF request.upload = "empty"
       THEN /\ response' = except_clauses(OtherException("cv2.error"))
            /\ calls' = <<"bytes_to_cv2_image">>
       ELSE IF request.upload = "garbage"
       THEN /\ response' = except_clauses(HTTPException(400, "Could not decode image"))
            /\ calls' = <<"bytes_to_cv2_image">>
       ELSE IF request.detect.raised
       THEN /\ response' = except_clauses(OtherException("Exception"))
            /\ calls' = <<"bytes_to_cv2_image", "detect">>
       ELSE /\ calls' = <<"bytes_to_cv2_image", "detect">>
            /\ response' =
                   [status_code |-> 200,
                    detections  |-> formatted_detections(request.detect.detections),
                    analysis    |-> None,
                    emotion     |-> None]
    /\ UNCHANGED <<request, dvars, evars, avars, uvars, cvars, gvars, kvars>>

RNext ==
    \/ AnalyzeImage
    \/ DetectBodyParts

----------------------------------------------------------------------------
(* core.dependencies: get_current_user and get_optional_user *)

\* the Authorization header: None, the empty string, or a text given by the words
\* str.split() cuts it into (no word: blanks only)
Authorizations ==
    {[kind |-> "None", words |-> <<>>], [kind |-> "", words |-> <<>>]}
        \cup {[kind |-> "text", words |-> w] :
                w \in {<<>>, <<"Bearer">>, <<"Bearer", "tok">>, <<"bearer", "tok">>,
                       <<"BEARER", "tok">>, <<"Basic", "tok">>, <<"Bearer", "tok", "x">>}}

\* str.lower() on the schemes above
Lower(s) ==
    IF s \in {"Bearer", "bearer", "BEARER"} THEN "bearer"
    ELSE IF s = "Basic" THEN "basic"
    ELSE s

\* what auth_service.get_user_from_session(token) does: it raises ValueError
\* (AuthService turns every exception into one), or returns the session's
\* stytch_user_id and emails
SessionOutcomes ==
    {[raised |-> TRUE, stytch_user_id |-> None, emails |-> <<>>]}
        \cup {[raised |-> FALSE, stytch_user_id |-> u, emails |-> e] :
                u \in {"stytch-1", "stytch-2"},
                e \in {<<>>, <<"a@x">>, <<"b@x", "a@x">>}}

\* the result of a call: the exception raised (at most one) and the value returned
\* (None: no value)
Raises(exc) == [exc |-> <<exc>>, value |-> <<>>]
Returns(v) == [exc |-> <<>>, value |-> v]

\* the user get_or_create_user returns for (stytch_user_id, email)
UserFor(stytch_user_id, email) == <<[stytch_user_id |-> stytch_user_id, email |-> email]>>

\* scheme, token = authorization.split() raises ValueError unless there are two
\* words; a scheme other than bearer, in any case, is refused
MalformedHeader(authorization) ==
    \/ Len(authorization.words) # 2
    \/ Lower(authorization.words[1]) # "bearer"

get_current_user(authorization, session, lookup) ==
    IF authorization.kind # "text"
    THEN Raises(HTTPException(401, "Authorization header missing"))
    ELSE IF MalformedHeader(authorization)
    THEN Raises(HTTPException(401, "Invalid authorization header format"))
    ELSE IF session.raised
    THEN Raises(HTTPException(401, "Invalid or expired session"))
    ELSE IF session.emails = <<>>
    THEN Raises(HTTPException(401, "User email not found in session"))
    ELSE IF lookup = "raises"
    THEN Raises(OtherException("SQLAlchemyError"))
    ELSE Returns(UserFor(session.stytch_user_id, session.emails[1]))

get_optional_user_lookup_unguarded(authorization, session, lookup) ==
    IF authorization.kind # "text" THEN Returns(<<>>)
    ELSE IF MalformedHeader(authorization) THEN Returns(<<>>)
    ELSE IF session.raised THEN Returns(<<>>)
    ELSE IF session.emails = <<>> THEN Returns(<<>>)
    ELSE IF lookup = "raises" THEN Raises(OtherException("SQLAlchemyError"))
    ELSE Returns(UserFor(session.stytch_user_id, session.emails[1]))

get_optional_user(authorization, session, lookup) ==
    IF authorization.kind # "text" THEN Returns(<<>>)
    ELSE IF MalformedHeader(authorization) THEN Returns(<<>>)
    ELSE IF session.raised THEN Returns(<<>>)
    ELSE IF session.emails = <<>> THEN Returns(<<>>)
    ELSE IF lookup = "raises" THEN Returns(<<>>)
    ELSE Returns(UserFor(session.stytch_user_id, session.emails[1]))

AuthInit ==
    /\ fn \in {"get_current_user", "get_optional_user"}
    \* UserService.get_or_create_user returns the user, or the database raises
    /\ \E a \in Authorizations, s \in SessionOutcomes, l \in {"returns", "raises"} :
          args = [authorization |-> a, session |-> s, lookup |-> l]
    /\ ret = None
    /\ upc = "ready"
    /\ outputs = <<>> /\ cands = <<>> /\ layout = "NF"
    /\ x_scale = <<1, 1>> /\ y_scale = <<1, 1>>
    /\ detections = <<>> /\ raised = "none" /\ dpc = "idle"
    /\ eye_in = None /\ mouth_in = None /\ tail_in = None
    /\ emotion_out = None /\ epc = "idle"
    /\ image_shape = <<ImageSide, ImageSide>> /\ adetections = <<>>
    /\ rois = [eye |-> NoRoi, mouth |-> NoRoi, tail |-> NoRoi]
    /\ analysis_result = [eye_state |-> None, mouth_state |-> None,
                          tail_position |-> None, tail_angle |-> {}]
    /\ emotion = None /\ apc = "idle"
    /\ request = <<>> /\ response = <<>> /\ calls = <<>> /\ rpc = "idle"
    /\ chat_messages = <<>> /\ checkpoint = <<>> /\ chat_call = <<>>
    /\ users = {} /\ goc = <<>> /\ completed = <<>>
    /\ service_fields = <<>> /\ invocations = <<>>

\* user: User = Depends(get_current_user)
GetCurrentUser ==
    /\ upc = "ready" /\ fn = "get_current_user"
    /\ upc' = "done"
    /\ ret' = get_current_user(args.authorization, args.session, args.lookup)
    /\ UNCHANGED <<fn, args, dvars, evars, avars, rvars, cvars, gvars, kvars>>

\* user: Optional[User] = Depends(get_optional_user)
GetOptionalUser ==
    /\ upc = "ready" /\ fn = "get_optional_user"
    /\ upc' = "done"
    /\ ret' = get_optional_user(args.authorization, args.session, args.lookup)
    /\ UNCHANGED <<fn, args, dvars, evars, avars, rvars, cvars, gvars, kvars>>

AuthNext ==
    \/ GetCurrentUser
    \/ GetOptionalUser

----------------------------------------------------------------------------
(* services.image_processing_service.ImageProcessingService.analyze_image_file *)

\* the attributes class ImageAnalysisService defines
ImageAnalysisService_attrs ==
    {"analyze_image_with_claude", "analyze_image_with_ollama", "save_analysis",
     "get_analyses_by_user", "get_analysis_by_id", "get_all_analyses",
     "get_user_analyses_history"}

\* the parameters of ImageAnalysisService.save_analysis, and those without default
save_analysis_params == {"db", "filename", "analysis_text", "user_id"}
save_analysis_required == {"db", "filename", "analysis_text"}

\* the columns and relationships class ImageAnalysis declares
ImageAnalysis_attrs ==
    {"id", "filename", "detections", "analysis_result", "emotion", "user_id",
     "created_at", "updated_at", "user"}

\* ImageAnalysisService.save_analysis called with the keywords kw, for the user
\* (<<>>: None) and a database that works or not: the exception raised, or the
\* chat session created (<<>>: None)
save_analysis(kw, user_id, db) ==
    IF ~(kw \subseteq save_analysis_params /\ save_analysis_required \subseteq kw)
    THEN Raises(OtherException("TypeError"))
    ELSE IF db = "fails"
    THEN Raises(OtherException("SQLAlchemyError"))
    ELSE IF ~({"filename", "detections", "analysis_result", "emotion", "user_id",
               "chat_session_id"} \subseteq ImageAnalysis_attrs)
    THEN Raises(OtherException("TypeError"))      \* ImageAnalysis(chat_session_id=...)
    ELSE Returns(IF user_id = <<>> THEN <<>> ELSE <<"chat-session-1">>)

\* the try block around save_analysis: chat_session_id stays None unless the save
\* returned a chat session
chat_session_id_after_save(saved) ==
    IF saved.exc # <<>> THEN Returns(<<>>) ELSE Returns(saved.value)

\* analyze_image_file(file, detector, db, user) for a request: the exception raised
\* or the DetectionResponse returned
analyze_image_file(req) ==
    IF ~IsImageContentType(req.content_type)
    THEN Raises(HTTPException(400, "File must be an image"))
    ELSE IF req.upload = "empty"
    THEN Raises(OtherException("cv2.error"))
    ELSE IF req.upload = "garbage"
    THEN Raises(HTTPException(400, "Could not decode image"))
    ELSE IF req.detect.raised
    THEN Raises(OtherException("Exception"))
    ELSE IF "analyze_body_parts" \notin ImageAnalysisService_attrs
    THEN Raises(OtherException("AttributeError"))
    ELSE LET saved == save_analysis({"db", "filename", "detections", "analysis_result",
                                     "user_id", "emotion"}, req.user, req.db)
             sid   == chat_session_id_after_save(saved)
         IN  IF sid.exc # <<>> THEN sid
             ELSE Returns(<<[detections      |-> formatted_detections(req.detect.detections),
                             analysis        |-> req.analysis.analysis_result,
                             emotion         |-> req.analysis.emotion,
                             chat_session_id |-> sid.value]>>)

\* what the analysis of the image gives
AnalysisOutcomes ==
    {[analysis_result |-> [eye_state |-> "normal", mouth_state |-> "closed",
                           tail_position |-> "up", tail_angle |-> {90}],
      emotion |-> "content"],
     [analysis_result |-> [eye_state |-> None, mouth_state |-> None,
                           tail_position |-> None, tail_angle |-> {}],
      emotion |-> None]}

PInit ==
    /\ \E ct \in ContentTypes, up \in Uploads, dt \in DetectOutcomes,
          an \in AnalysisOutcomes, us \in {<<>>, <<"user-1">>}, db \in {"works", "fails"} :
          request = [content_type |-> ct, upload |-> up, detect |-> dt,
                     analysis |-> an, user |-> us, db |-> db]
    /\ response = <<>>
    /\ calls = <<>>
    /\ rpc = "ready"
    /\ image_shape = <<ImageSide, ImageSide>> /\ adetections = <<>>
    /\ rois = [eye |-> NoRoi, mouth |-> NoRoi, tail |-> NoRoi]
    /\ analysis_result = [eye_state |-> None, mouth_state |-> None,
                          tail_position |-> None, tail_angle |-> {}]
    /\ emotion = None /\ apc = "idle"
    /\ outputs = <<>> /\ cands = <<>> /\ layout = "NF"
    /\ x_scale = <<1, 1>> /\ y_scale = <<1, 1>>
    /\ detections = <<>> /\ raised = "none" /\ dpc = "idle"
    /\ eye_in = None /\ mouth_in = None /\ tail_in = None
    /\ emotion_out = None /\ epc = "idle"
    /\ fn = "none" /\ args = <<>> /\ ret = None /\ upc = "idle"
    /\ chat_messages = <<>> /\ checkpoint = <<>> /\ chat_call = <<>>
    /\ users = {} /\ goc = <<>> /\ completed = <<>>
    /\ service_fields = <<>> /\ invocations = <<>>

\* await ImageProcessingService.analyze_image_file(file, detector, db, user)
AnalyzeImageFile ==
    /\ rpc = "ready"
    /\ rpc' = "done"
    /\ response' = analyze_image_file(request)
    /\ UNCHANGED <<request, calls, dvars, evars, avars, uvars, cvars, gvars, kvars>>

PNext == AnalyzeImageFile

----------------------------------------------------------------------------
(* services.chat_service (workflow, ChatService) and routes.chat *)

\* the rows of the table chat_sessions: session id -> user_id
chat_sessions == [s \in {"session-1", "session-2"} |->
                    IF s = "session-1" THEN "user-1" ELSE "user-2"]

\* the session ids and user ids a request may carry
SessionIds == {"session-1", "session-2", "session-3"}
UserIds == {"user-1", "user-2"}

\* core.config.CHAT_SYSTEM_PROMPT
CHAT_SYSTEM_PROMPT == "You are Frankie"

\* langchain messages: id 0 is None
SystemMessage(content) == [role |-> "system", content |-> content, id |-> 0]
HumanMessage(content) == [role |-> "human", content |-> content, id |-> 0]
AIMessage(content) == [role |-> "ai", content |-> content, id |-> 0]

\* a message of right replaces the message of merged with its id, or is appended
RECURSIVE MergeById(_, _)
MergeById(merged, right) ==
    IF right = <<>> THEN merged
    ELSE LET m   == Head(right)
             pos == {i \in 1..Len(merged) : merged[i].id = m.id}
         IN  IF pos # {}
             THEN MergeById([merged EXCEPT ![SetMin(pos)] = m], Tail(right))
             ELSE MergeById(Append(merged, m), Tail(right))

\* langgraph.graph.add_messages(left, right): message.id = str(uuid.uuid4()) for
\* each message whose id is None (here: ids above every id in use), then the merge
add_messages(left, right) ==
    LET both == left \o right
        base == SetMax({0} \cup {both[i].id : i \in 1..Len(both)})
        WithIds(ms, from) ==
            [i \in 1..Len(ms) |->
                IF ms[i].id = 0 THEN [ms[i] EXCEPT !.id = from + i] ELSE ms[i]]
    IN  MergeById(WithIds(left, base), WithIds(right, base + Len(left)))

\* workflow(inputs, previous=...): the list handed to call_model
workflow_all_messages(inputs, previous) ==
    IF previous # <<>>
    THEN add_messages(previous, inputs)
    ELSE IF inputs # <<>> /\ inputs[1].role = "system"
    THEN inputs
    ELSE add_messages(<<SystemMessage(CHAT_SYSTEM_PROMPT)>>, inputs)

\* ChatService.get_session_messages: the rows of the session, by creation time
get_session_messages(table, session_id) ==
    SelectSeq(table, LAMBDA row : row.session_id = session_id)

\* ChatService._convert_db_messages_to_langchain
RECURSIVE convert_db_messages_to_langchain(_)
convert_db_messages_to_langchain(db_messages) ==
    IF db_messages = <<>> THEN <<>>
    ELSE LET msg == Head(db_messages)
             rst == convert_db_messages_to_langchain(Tail(db_messages))
         IN  IF msg.sender = "user" THEN <<HumanMessage(msg.content)>> \o rst
             ELSE IF msg.sender = "assistant" THEN <<AIMessage(msg.content)>> \o rst
             ELSE rst

\* ChatService.save_message: the table with the new row, its id the next one
save_message(table, session_id, sender, content) ==
    Append(table, [id |-> Len(table) + 1, session_id |-> session_id,
                   sender |-> sender, content |-> content])

get_owned_session_unchecked(session_id, user_id) ==
    IF session_id \notin DOMAIN chat_sessions
    THEN Raises(HTTPException(404, "Session not found"))
    ELSE Returns(<<[id |-> session_id, user_id |-> chat_sessions[session_id]]>>)

\* session = await ChatService.get_session(session_id, db), then
\* if session.user_id != user_id: raise HTTPException(status_code=403, ...)
get_owned_session(session_id, user_id) ==
    IF session_id \notin DOMAIN chat_sessions
    THEN Raises(HTTPException(404, "Session not found"))
    ELSE IF chat_sessions[session_id] # user_id
    THEN Raises(HTTPException(403, "You don't have access to this chat session"))
    ELSE Returns(<<[id |-> session_id, user_id |-> chat_sessions[session_id]]>>)

\* what llm.invoke does: it raises, or returns a message
ModelOutcomes == {[raised |-> TRUE, content |-> None], [raised |-> FALSE, content |-> "meow"]}

send_message_assistant_first(session_id, content, user_id, table, previous, model) ==
    LET session == get_owned_session(session_id, user_id)
        previous_messages == convert_db_messages_to_langchain(
                                 get_session_messages(table, session_id))
        inputs == IF previous_messages # <<>>
                  THEN <<SystemMessage(CHAT_SYSTEM_PROMPT)>> \o previous_messages
                           \o <<HumanMessage(content)>>
                  ELSE <<HumanMessage(content)>>
        all_messages == workflow_all_messages(inputs, previous)
    IN  IF session.exc # <<>>
        THEN [response |-> session, table |-> table, model_input |-> <<>>,
              save |-> previous, trace |-> <<"get_session">>]
        ELSE IF model.raised
        THEN [response |-> Raises(HTTPException(500, "Failed to get AI response")),
              table |-> table, model_input |-> all_messages, save |-> previous,
              trace |-> <<"get_session", "get_session_messages", "llm.invoke">>]
        ELSE LET t1 == save_message(table, session_id, "assistant", model.content)
                 t2 == save_message(t1, session_id, "user", content)
             IN  [response |-> Returns(<<t1[Len(t1)]>>), table |-> t2,
                  model_input |-> all_messages,
                  save |-> add_messages(all_messages, <<AIMessage(model.content)>>),
                  trace |-> <<"get_session", "get_session_messages", "llm.invoke",
                              "save_message assistant", "save_message user">>]

\* ChatService.send_message(message_request, user_id, db) on the table of messages
\* and the checkpoint of the thread, the model raising or answering: the response,
\* the table afterwards, the list handed to llm.invoke (<<>>: not invoked), the
\* checkpoint afterwards and the steps taken
send_message(session_id, content, user_id, table, previous, model) ==
    LET session == get_owned_session(session_id, user_id)
        t1 == save_message(table, session_id, "user", content)
        user_message == t1[Len(t1)]
        db_messages == get_session_messages(t1, session_id)
        previous_messages == convert_db_messages_to_langchain(
                                 SelectSeq(db_messages, LAMBDA msg : msg.id # user_message.id))
        inputs == IF previous_messages # <<>>
                  THEN <<SystemMessage(CHAT_SYSTEM_PROMPT)>> \o previous_messages
                           \o <<HumanMessage(content)>>
                  ELSE <<HumanMessage(content)>>
        all_messages == workflow_all_messages(inputs, previous)
    IN  IF session.exc # <<>>
        THEN [response |-> session, table |-> table, model_input |-> <<>>,
              save |-> previous, trace |-> <<"get_session">>]
        ELSE IF model.raised
        THEN [response |-> Raises(HTTPException(500, "Failed to get AI response")),
              table |-> t1, model_input |-> all_messages, save |-> previous,
              trace |-> <<"get_session", "save_message user", "get_session_messages",
                          "llm.invoke">>]
        ELSE LET t2 == save_message(t1, session_id, "assistant", model.content)
             IN  [response |-> Returns(<<t2[Len(t2)]>>), table |-> t2,
                  model_input |-> all_messages,
                  save |-> add_messages(all_messages, <<AIMessage(model.content)>>),
                  trace |-> <<"get_session", "save_message user", "get_session_messages",
                              "llm.invoke", "save_message assistant">>]

\* the contents a user sends
Contents == {"hi", "why"}

\* at most this many messages are sent by users
MaxSends == 3

\* no message yet, or the analysis ImageAnalysisService.save_analysis stored as the
\* first assistant message of the session it created
ChatInit ==
    /\ chat_messages \in
          {<<>>, <<[id |-> 1, session_id |-> "session-2", sender |-> "assistant",
                    content |-> "analysis"]>>}
    /\ checkpoint = [s \in DOMAIN chat_sessions |-> <<>>]
    /\ chat_call = [op |-> "none"]
    /\ outputs = <<>> /\ cands = <<>> /\ layout = "NF"
    /\ x_scale = <<1, 1>> /\ y_scale = <<1, 1>>
    /\ detections = <<>> /\ raised = "none" /\ dpc = "idle"
    /\ eye_in = None /\ mouth_in = None /\ tail_in = None
    /\ emotion_out = None /\ epc = "idle"
    /\ image_shape = <<ImageSide, ImageSide>> /\ adetections = <<>>
    /\ rois = [eye |-> NoRoi, mouth |-> NoRoi, tail |-> NoRoi]
    /\ analysis_result = [eye_state |-> None, mouth_state |-> None,
                          tail_position |-> None, tail_angle |-> {}]
    /\ emotion = None /\ apc = "idle"
    /\ fn = "none" /\ args = <<>> /\ ret = None /\ upc = "idle"
    /\ request = <<>> /\ response = <<>> /\ calls = <<>> /\ rpc = "idle"
    /\ users = {} /\ goc = <<>> /\ completed = <<>>
    /\ service_fields = <<>> /\ invocations = <<>>

\* @router.get("/chat/session/{session_id}")
GetChatSession ==
    /\ \E session_id \in SessionIds, user_id \in UserIds :
          chat_call' = [op |-> "get_chat_session", session_id |-> session_id,
                        user_id |-> user_id, content |-> None,
                        response |-> get_owned_session(session_id, user_id),
                        model_input |-> <<>>, trace |-> <<"get_session">>]
    /\ UNCHANGED <<chat_messages, checkpoint, dvars, evars, avars, uvars, rvars, gvars, kvars>>

\* @router.get("/chat/session/{session_id}/messages")
GetChatMessages ==
    /\ \E session_id \in SessionIds, user_id \in UserIds :
          LET session == get_owned_session(session_id, user_id)
          IN  chat_call' =
                  [op |-> "get_chat_messages", session_id |-> session_id,
                   user_id |-> user_id, content |-> None,
                   response |-> IF session.exc # <<>> THEN session
                                ELSE Returns(get_session_messages(chat_messages, session_id)),
                   model_input |-> <<>>,
                   trace |-> IF session.exc # <<>> THEN <<"get_session">>
                             ELSE <<"get_session", "get_session_messages">>]
    /\ UNCHANGED <<chat_messages, checkpoint, dvars, evars, avars, uvars, rvars, gvars, kvars>>

\* @router.post("/chat/send-message"): ChatService.send_message
SendChatMessage ==
    /\ Len(SelectSeq(chat_messages, LAMBDA row : row.sender = "user")) < MaxSends
    /\ \E session_id \in SessionIds, user_id \in UserIds, content \in Contents,
          model \in ModelOutcomes :
          LET thread == IF session_id \in DOMAIN checkpoint
                        THEN checkpoint[session_id] ELSE <<>>
              r == send_message(session_id, content, user_id, chat_messages, thread, model)
          IN  /\ chat_call' = [op |-> "send_message", session_id |-> session_id,
                               user_id |-> user_id, content |-> content,
                               response |-> r.response, model_input |-> r.model_input,
                               trace |-> r.trace]
              /\ chat_messages' = r.table
              /\ checkpoint' = IF session_id \in DOMAIN checkpoint
                               THEN [checkpoint EXCEPT ![session_id] = r.save]
                               ELSE checkpoint
    /\ UNCHANGED <<dvars, evars, avars, uvars, rvars, gvars, kvars>>

ChatNext ==
    \/ GetChatSession
    \/ GetChatMessages
    \/ SendChatMessage

----------------------------------------------------------------------------
(* services.user_service.UserService.get_or_create_user, called concurrently *)

\* this many calls of get_or_create_user are in progress at once
MaxCalls == 2

StytchUserIds == {"stytch-1", "stytch-2"}
Emails == {"a@x", "b@x"}

\* Column(String, unique=True) on stytch_user_id and on email: the table admits
\* the rows when no two of them share a stytch_user_id or an email
UniqueColumnsHold(rows) ==
    \A r1, r2 \in rows :
        r1.id # r2.id => (r1.stytch_user_id # r2.stytch_user_id /\ r1.email # r2.email)

\* select(User).where(User.stytch_user_id == stytch_user_id), scalar_one_or_none()
select_user(rows, stytch_user_id) ==
    IF \E r \in rows : r.stytch_user_id = stytch_user_id
    THEN <<CHOOSE r \in rows : r.stytch_user_id = stytch_user_id>>
    ELSE <<>>

\* the rows after the call that read `seen` writes: a new row when it saw none, the
\* email of the row it saw changed when it differs, nothing otherwise
rows_written(rows, call_id, seen, stytch_user_id, email) ==
    IF seen = <<>>
    THEN rows \cup {[id |-> call_id, stytch_user_id |-> stytch_user_id, email |-> email]}
    ELSE IF seen[1].email # email
    THEN {IF r.id = seen[1].id THEN [r EXCEPT !.email = email] ELSE r : r \in rows}
    ELSE rows

GInit ==
    /\ users \in {{}, {[id |-> 0, stytch_user_id |-> "stytch-1", email |-> "a@x"]}}
    /\ goc \in [(1..MaxCalls) -> {[stytch_user_id |-> s, email |-> e, pc |-> "start",
                             seen |-> <<>>, result |-> Returns(<<>>)] :
                                s \in StytchUserIds, e \in Emails}]
    /\ completed = <<>>
    /\ outputs = <<>> /\ cands = <<>> /\ layout = "NF"
    /\ x_scale = <<1, 1>> /\ y_scale = <<1, 1>>
    /\ detections = <<>> /\ raised = "none" /\ dpc = "idle"
    /\ eye_in = None /\ mouth_in = None /\ tail_in = None
    /\ emotion_out = None /\ epc = "idle"
    /\ image_shape = <<ImageSide, ImageSide>> /\ adetections = <<>>
    /\ rois = [eye |-> NoRoi, mouth |-> NoRoi, tail |-> NoRoi]
    /\ analysis_result = [eye_state |-> None, mouth_state |-> None,
                          tail_position |-> None, tail_angle |-> {}]
    /\ emotion = None /\ apc = "idle"
    /\ fn = "none" /\ args = <<>> /\ ret = None /\ upc = "idle"
    /\ request = <<>> /\ response = <<>> /\ calls = <<>> /\ rpc = "idle"
    /\ chat_messages = <<>> /\ checkpoint = <<>> /\ chat_call = <<>>
    /\ service_fields = <<>> /\ invocations = <<>>

\* result = await db.execute(select(User).where(...)); user = result.scalar_one_or_none()
SelectUser(c) ==
    /\ goc[c].pc = "start"
    /\ goc' = [goc EXCEPT ![c].pc = "selected",
                          ![c].seen = select_user(users, goc[c].stytch_user_id)]
    /\ UNCHANGED <<users, completed, dvars, evars, avars, uvars, rvars, cvars, kvars>>

\* db.add(user) or user.email = email, then await db.commit() and db.refresh(user);
\* return user.  The commit raises IntegrityError when a unique column would
\* hold a value twice
WriteUser(c) ==
    /\ goc[c].pc = "selected"
    /\ LET rows == rows_written(users, c, goc[c].seen, goc[c].stytch_user_id, goc[c].email)
           own  == IF goc[c].seen = <<>> THEN c ELSE goc[c].seen[1].id
       IN  IF UniqueColumnsHold(rows)
           THEN /\ users' = rows
                /\ goc' = [goc EXCEPT ![c].pc = "done",
                                      ![c].result =
                                          IF goc[c].seen # <<>> /\ goc[c].seen[1].email = goc[c].email
                                          THEN Returns(goc[c].seen)
                                          ELSE Returns(<<CHOOSE r \in rows : r.id = own>>)]
           ELSE /\ users' = users
                /\ goc' = [goc EXCEPT ![c].pc = "done",
                                      ![c].result = Raises(OtherException("IntegrityError"))]
    /\ completed' = Append(completed, c)
    /\ UNCHANGED <<dvars, evars, avars, uvars, rvars, cvars, kvars>>

GNext ==
    \/ \E c \in (1..MaxCalls) : SelectUser(c)
    \/ \E c \in (1..MaxCalls) : WriteUser(c)

----------------------------------------------------------------------------
(* Concurrent analysis invocations on one DetectionService instance *)

\* the fields __init__ sets and the methods read
DetectionService_init ==
    [input_height   |-> input_height,
     input_width    |-> input_width,
     conf_threshold |-> conf_threshold,
     iou_threshold  |-> iou_threshold,
     class_names    |-> class_names]

self_after_lowering_threshold(method, self) ==
    IF method = "postprocess_output" THEN [self EXCEPT !.conf_threshold = 10] ELSE self

\* the fields of self after a method ran: preprocess_image, detect,
\* postprocess_output, _apply_nms and analyze_body_parts assign to no field of
\* self and to no module-level name
self_after(method, self) == self

\* DetectionService.detect(image) run on its own, the network giving `tensor` for
\* the image: the exception raised or the detections returned
detect(shape, tensor) ==
    LET pre == preprocess_image(shape)
    IN  IF pre.raised # "none" THEN Raises(OtherException(pre.raised))
        ELSE IF RaisesIndexError(tensor) THEN Raises(OtherException("IndexError"))
        ELSE Returns(postprocess_output(tensor, pre.x_scale, pre.y_scale))

\* this many invocations run at once
MaxInvocations == 2

\* the images: their shape, and what OpenCV measures on any crop of them
InvocationShapes == {<<ImageSide, ImageSide>>, <<ImageSide, 10>>, <<0, ImageSide>>}
InvocationMeasures ==
    {[me |-> [contours |-> FALSE, white |-> 0], mm |-> <<>>,
      mt |-> [contours |-> FALSE, w |-> 0, h |-> 0, angle |-> 0]],
     [me |-> [contours |-> TRUE, white |-> 0], mm |-> <<8>>,
      mt |-> [contours |-> TRUE, w |-> 1, h |-> 1, angle |-> 90]]}

\* what the network gives: an eye, a mouth and a tail apart from each other, or
\* one eye, in (features, num_candidates) layout
InvocationTensors ==
    {Transpose(<<TripleRow(<<100, 100, 20, 10>>, 1, 60), TripleRow(<<125, 100, 20, 10>>, 2, 60),
                 TripleRow(<<100, 300, 20, 10>>, 3, 60)>>
                   \o [i \in 1..(5 + ExtraCands) |-> ZeroRow(3)]),
     Transpose(<<TripleRow(<<400, 400, 40, 40>>, 1, 40)>>
                   \o [i \in 1..(7 + ExtraCands) |-> ZeroRow(3)])}

KInit ==
    /\ service_fields = DetectionService_init
    /\ invocations \in
          [(1..MaxInvocations) ->
              {[shape |-> s, tensor |-> t, measures |-> m, pc |-> "start", read |-> <<>>,
                pre |-> <<>>, detections |-> Returns(<<>>), analysis |-> <<>>] :
                  s \in InvocationShapes, t \in InvocationTensors, m \in InvocationMeasures}]
    /\ outputs = <<>> /\ cands = <<>> /\ layout = "NF"
    /\ x_scale = <<1, 1>> /\ y_scale = <<1, 1>>
    /\ detections = <<>> /\ raised = "none" /\ dpc = "idle"
    /\ eye_in = None /\ mouth_in = None /\ tail_in = None
    /\ emotion_out = None /\ epc = "idle"
    /\ image_shape = <<ImageSide, ImageSide>> /\ adetections = <<>>
    /\ rois = [eye |-> NoRoi, mouth |-> NoRoi, tail |-> NoRoi]
    /\ analysis_result = [eye_state |-> None, mouth_state |-> None,
                          tail_position |-> None, tail_angle |-> {}]
    /\ emotion = None /\ apc = "idle"
    /\ fn = "none" /\ args = <<>> /\ ret = None /\ upc = "idle"
    /\ request = <<>> /\ response = <<>> /\ calls = <<>> /\ rpc = "idle"
    /\ chat_messages = <<>> /\ checkpoint = <<>> /\ chat_call = <<>>
    /\ users = {} /\ goc = <<>> /\ completed = <<>>

\* preprocessed, x_scale, y_scale = self.preprocess_image(image)
InvPreprocess(c) ==
    /\ invocations[c].pc = "start"
    /\ LET pre == preprocess_image(invocations[c].shape)
       IN  invocations' =
               [invocations EXCEPT
                   ![c].read = Append(@, service_fields),
                   ![c].pre = <<pre>>,
                   ![c].detections = IF pre.raised # "none"
                                     THEN Raises(OtherException(pre.raised)) ELSE @,
                   ![c].pc = IF pre.raised # "none" THEN "raised" ELSE "preprocessed"]
    /\ service_fields' = self_after("preprocess_image", service_fields)
    /\ UNCHANGED <<dvars, evars, avars, uvars, rvars, cvars, gvars>>

\* outputs = self.session.run(self.output_names, {self.input_name: preprocessed})
InvRun(c) ==
    /\ invocations[c].pc = "preprocessed"
    /\ invocations' = [invocations EXCEPT ![c].pc = "inferred"]
    /\ service_fields' = self_after("detect", service_fields)
    /\ UNCHANGED <<dvars, evars, avars, uvars, rvars, cvars, gvars>>

\* detections = self.postprocess_output(output, x_scale, y_scale); return detections
InvPostprocess(c) ==
    /\ invocations[c].pc = "inferred"
    /\ LET pre == invocations[c].pre[1]
       IN  invocations' =
               [invocations EXCEPT
                   ![c].read = Append(@, service_fields),
                   ![c].detections =
                       IF RaisesIndexError(invocations[c].tensor)
                       THEN Raises(OtherException("IndexError"))
                       ELSE Returns(postprocess_output(invocations[c].tensor,
                                                       pre.x_scale, pre.y_scale)),
                   ![c].pc = IF RaisesIndexError(invocations[c].tensor)
                             THEN "raised" ELSE "detected"]
    /\ service_fields' = self_after("postprocess_output", service_fields)
    /\ UNCHANGED <<dvars, evars, avars, uvars, rvars, cvars, gvars>>

\* analysis_result, emotion = AnalysisService.analyze_body_parts(image, detections)
InvAnalyze(c) ==
    /\ invocations[c].pc = "detected"
    /\ LET r == analyze_body_parts(invocations[c].shape, invocations[c].detections.value,
                                   invocations[c].measures.me, invocations[c].measures.mm,
                                   invocations[c].measures.mt)
       IN  invocations' =
               [invocations EXCEPT
                   ![c].analysis = <<[analysis_result |-> r.analysis_result,
                                      emotion |-> r.emotion]>>,
                   ![c].pc = "done"]
    /\ service_fields' = self_after("analyze_body_parts", service_fields)
    /\ UNCHANGED <<dvars, evars, avars, uvars, rvars, cvars, gvars>>

KNext ==
    \/ \E c \in (1..MaxInvocations) : InvPreprocess(c)
    \/ \E c \in (1..MaxInvocations) : InvRun(c)
    \/ \E c \in (1..MaxInvocations) : InvPostprocess(c)
    \/ \E c \in (1..MaxInvocations) : InvAnalyze(c)

----------------------------------------------------------------------------
(* Specifications: one per entry point, the variables of the others at rest *)

SpecDetect == DInit /\ [][DNext]_vars

SpecEmotion == EInit /\ [][ENext]_vars

SpecAnalysis == AInit /\ [][ANext]_vars

SpecUnits == UInit /\ [][UNext]_vars

SpecRoutes == RInit /\ [][RNext]_vars

SpecAuth == AuthInit /\ [][AuthNext]_vars

SpecProcessing == PInit /\ [][PNext]_vars

SpecChat == ChatInit /\ [][ChatNext]_vars

SpecUsers == GInit /\ [][GNext]_vars

SpecConcurrent == KInit /\ [][KNext]_vars

----------------------------------------------------------------------------
(* Claims about the decoder and the suppressor (SpecDetect) *)

\* Intersection-over-Union of two boxes [x1, y1, x2, y2] exceeds thr hundredths
BoxArea(b) == (b[3] - b[1]) * (b[4] - b[2])

BoxInterArea(a, b) ==
    LET w == Min2(a[3], b[3]) - Max2(a[1], b[1])
        h == Min2(a[4], b[4]) - Max2(a[2], b[2])
    IN  IF w <= 0 \/ h <= 0 THEN 0 ELSE w * h

IoUExceeds(a, b, thr) ==
    BoxInterArea(a, b) * 100 > thr * (BoxArea(a) + BoxArea(b) - BoxInterArea(a, b))

\* the rows of the tensor as the decoder reads them
CanonRows == Canonical(outputs)
NCols == Len(CanonRows[1])

\* C1: every detection postprocess_output returns has confidence >= conf_threshold
\* and an integer bbox with x2 > x1 and y2 > y1
C1_DecoderInvariant ==
    dpc = "done" =>
        \A i \in 1..Len(detections) :
            /\ detections[i].confidence >= conf_threshold
            /\ \A k \in 1..4 : detections[i].bbox[k] \in Int
            /\ detections[i].bbox[3] > detections[i].bbox[1]
            /\ detections[i].bbox[4] > detections[i].bbox[2]

\* a detection was returned while a row above the threshold was dropped for its empty box
C1_Witness ==
    /\ dpc = "done"
    /\ detections # <<>>
    /\ \E i \in 1..Len(CanonRows) :
          LET b == RowBBox(CanonRows[i], x_scale, y_scale)
          IN  /\ RowConf(CanonRows[i], NCols) >= conf_threshold
              /\ b[3] <= b[1]

\* C2: any two distinct retained detections of the same class have IoU <= iou_threshold
C2_SuppressionInvariant ==
    dpc = "done" =>
        \A i, j \in 1..Len(detections) :
            (i # j /\ detections[i].class = detections[j].class)
                => ~IoUExceeds(detections[i].bbox, detections[j].bbox, iou_threshold)

\* the candidates that passed the confidence and degenerate-box filters
Passed == DecodeRows(CanonRows, 1, NCols, x_scale, y_scale)

\* the class names of the candidates that passed
PassedClasses == {Passed[i].class : i \in 1..Len(Passed)}

\* C3: suppression runs independently per class: the detections retained of a class
\* are those that suppression among the candidates of that class alone retains, so a
\* detection of a different class never removes a candidate
C3_PerClassSuppression ==
    (dpc = "done" /\ raised = "none") =>
        \A c \in PassedClasses :
            OfClass(detections, c) = _apply_nms(OfClass(Passed, c))

\* C8: every detection returned has a class name of the fixed class list
C8_ClassInList ==
    dpc = "done" =>
        \A i \in 1..Len(detections) : detections[i].class \in Range(class_names)

\* C9: a returned detection comes from a row whose class score at the first maximum
\* is its confidence (objectness plays no part), or, without class scores, whose
\* objectness is its confidence and whose class is class 0
C9_ConfidenceIsClassScore ==
    (dpc = "done" /\ raised = "none") =>
        \A i \in 1..Len(detections) :
            \E r \in 1..Len(CanonRows) :
                LET row == CanonRows[r]
                    d   == detections[i]
                IN  /\ d.bbox = RowBBox(row, x_scale, y_scale)
                    /\ IF NCols > 5
                       THEN \E c \in 0..(NCols - 6) :
                               /\ \A k \in 0..(NCols - 6) : row[6 + k] <= row[6 + c]
                               /\ \A k \in 0..(c - 1) : row[6 + k] < row[6 + c]
                               /\ d.confidence = row[6 + c]
                               /\ d.class = ClassName(c)
                       ELSE d.confidence = row[5] /\ d.class = class_names[1]

\* a detection was returned from a tensor with class scores, and its confidence is
\* not the product with objectness
C9_Witness ==
    /\ dpc = "done"
    /\ NCols > 5
    /\ \E i \in 1..Len(detections), r \in 1..Len(CanonRows) :
          /\ detections[i].bbox = RowBBox(CanonRows[r], x_scale, y_scale)
          /\ detections[i].confidence # (CanonRows[r][5] * detections[i].confidence) \div 100

\* what decoding each candidate row as [cx, cy, w, h, objectness, class scores] gives
ExpectedDetections ==
    _apply_nms(DecodeRows(cands, 1, Len(cands[1]), x_scale, y_scale))

\* C10 as stated: in either layout the detections are those of the candidate rows
C10_LayoutIndependent ==
    dpc = "done" => (raised = "none" /\ detections = ExpectedDetections)

\* C10 amended: the same, for a tensor with more candidates than features
C10_LayoutIndependentWhenMoreCands ==
    (dpc = "done" /\ Len(cands) > Len(cands[1]))
        => (raised = "none" /\ detections = ExpectedDetections)

\* a (features, num_candidates) tensor with more candidates than features was decoded
C10_Witness ==
    /\ dpc = "done"
    /\ layout = "FN"
    /\ Len(cands) > Len(cands[1])
    /\ Len(detections) = 2

\* the candidates of the tensor that are not zero rows
NonZeroCands == {i \in 1..Len(cands) : \E k \in 1..Len(cands[i]) : cands[i][k] # 0}

\* the tensor has 3 class columns and more candidates than features, and encodes
\* exactly three candidates: one per class, each above conf_threshold, each box
\* non-empty in image coordinates, no two boxes sharing a pixel
ThreeDisjointCands ==
    /\ Len(cands[1]) = 5 + Len(class_names)
    /\ Len(cands) > Len(cands[1])
    /\ Cardinality(NonZeroCands) = 3
    /\ {RowClassId(cands[i], 8) : i \in NonZeroCands} = {0, 1, 2}
    /\ \A i \in NonZeroCands :
          /\ RowConf(cands[i], 8) > conf_threshold
          /\ BoxArea(RowBBox(cands[i], x_scale, y_scale)) > 0
          /\ RowBBox(cands[i], x_scale, y_scale)[3] > RowBBox(cands[i], x_scale, y_scale)[1]
    /\ \A i, j \in NonZeroCands :
          i # j => BoxInterArea(RowBBox(cands[i], x_scale, y_scale),
                                RowBBox(cands[j], x_scale, y_scale)) = 0

\* C11: a tensor encoding exactly one eye, one mouth and one tail candidate, each
\* above the confidence threshold and pairwise non-overlapping, gives exactly 3
\* detections, of classes eye, mouth and tail
C11_ThreeDisjointGiveThree ==
    (dpc = "done" /\ ThreeDisjointCands) =>
        /\ raised = "none"
        /\ Len(detections) = 3
        /\ {detections[i].class : i \in 1..Len(detections)} = {"eye", "mouth", "tail"}

----------------------------------------------------------------------------
(* Claims about the emotion fuser (SpecEmotion) *)

KeyIn == <<eye_in, mouth_in, tail_in>>
NoExactRow == \A i \in 1..Len(EMOTION_MAPPING) : EMOTION_MAPPING[i].key # KeyIn
PrefixRow(i) ==
    EMOTION_MAPPING[i].key[1] = eye_in /\ EMOTION_MAPPING[i].key[2] = mouth_in
NoPrefixRow == \A i \in 1..Len(EMOTION_MAPPING) : ~PrefixRow(i)

\* C4: each of the 7 table triples gives its table emotion ((wide_open, closed, up)
\* gives alert), and a triple outside the table whose (eye, mouth) pair is that of a
\* table row gives the emotion of the first such row
C4_TableThenFirstPrefix ==
    epc = "done" =>
        /\ Len(EMOTION_MAPPING) = 7
        /\ KeyIn = <<"wide_open", "closed", "up">> => emotion_out = "alert"
        /\ \A i \in 1..Len(EMOTION_MAPPING) :
              EMOTION_MAPPING[i].key = KeyIn => emotion_out = EMOTION_MAPPING[i].emotion
        /\ \A i \in 1..Len(EMOTION_MAPPING) :
              (NoExactRow /\ PrefixRow(i) /\ \A j \in 1..(i - 1) : ~PrefixRow(j))
                  => emotion_out = EMOTION_MAPPING[i].emotion

\* a triple outside the table whose (eye, mouth) pair is that of two table rows
C4_Witness ==
    /\ epc = "done"
    /\ NoExactRow
    /\ \E i, j \in 1..Len(EMOTION_MAPPING) :
          /\ i < j /\ PrefixRow(i) /\ PrefixRow(j)
          /\ EMOTION_MAPPING[i].emotion # EMOTION_MAPPING[j].emotion
          /\ emotion_out = EMOTION_MAPPING[i].emotion

\* C5: with no exact and no (eye, mouth) match: wide_open and open gives excited,
\* else closed eyes give sleepy, else tail down gives submissive, else neutral
C5_DefaultPriority ==
    (epc = "done" /\ NoExactRow /\ NoPrefixRow) =>
        emotion_out =
            (IF eye_in = "wide_open" /\ mouth_in = "open" THEN "excited"
             ELSE IF eye_in = "closed" THEN "sleepy"
             ELSE IF tail_in = "down" THEN "submissive"
             ELSE "neutral")

\* the defaults decided between closed eyes and a tail that is down
C5_Witness ==
    /\ epc = "done" /\ NoExactRow /\ NoPrefixRow
    /\ eye_in = "closed" /\ tail_in = "down"
    /\ emotion_out = "sleepy"

----------------------------------------------------------------------------
(* Claims about analyze_body_parts (SpecAnalysis) *)

PartStates ==
    {analysis_result.eye_state, analysis_result.mouth_state, analysis_result.tail_position}

\* C6: if any of the three states is 'unknown' or absent, no emotion is returned
C6_NoEmotionUnlessAllKnown ==
    apc = "done" =>
        ((PartStates \cap {"unknown", None} # {}) => emotion = None)

\* C7: a part with no detection of its class, or whose best detection clamps to an
\* empty crop, has the state 'unknown'
C7_MissingPartIsUnknown ==
    apc = "done" =>
        /\ rois.eye = NoRoi => analysis_result.eye_state = "unknown"
        /\ rois.mouth = NoRoi => analysis_result.mouth_state = "unknown"
        /\ rois.tail = NoRoi => analysis_result.tail_position = "unknown"

\* the bbox of the detection analyze_body_parts crops for class c
BestBBox(c) == Best(OfClass(adetections, c)).bbox

\* the bbox clamped as the claim says: x1, y1 raised to 0; x2 lowered to the width,
\* y2 to the height
Clamped(b) ==
    <<Max2(0, b[1]), Max2(0, b[2]), Min2(image_shape[2], b[3]), Min2(image_shape[1], b[4])>>

\* C14: extract_roi returns None exactly when the bbox has not 4 elements or the
\* clamped box has x2 <= x1 or y2 <= y1; otherwise the crop is that of the clamped
\* box, (y2 - y1) rows by (x2 - x1) columns, both at least 1, inside the image
C14_ClampedCrop ==
    apc = "done" =>
        \A c \in Range(class_names) :
            OfClass(adetections, c) # <<>> =>
                IF Len(BestBBox(c)) # 4 THEN rois[c] = NoRoi
                ELSE LET k == Clamped(BestBBox(c))
                     IN  IF k[3] <= k[1] \/ k[4] <= k[2] THEN rois[c] = NoRoi
                         ELSE /\ rois[c] # NoRoi
                              /\ rois[c] = k
                              /\ RoiShape(rois[c]) = <<k[4] - k[2], k[3] - k[1]>>
                              /\ RoiShape(rois[c])[1] >= 1 /\ RoiShape(rois[c])[2] >= 1
                              /\ 0 <= k[1] /\ k[3] <= image_shape[2]
                              /\ 0 <= k[2] /\ k[4] <= image_shape[1]

\* the eye crop was cut from a bbox that reaches outside the image, the mouth bbox
\* lies outside the image and its crop is None
C14_Witness ==
    /\ apc = "done"
    /\ OfClass(adetections, "eye") # <<>> /\ OfClass(adetections, "mouth") # <<>>
    /\ Len(BestBBox("eye")) = 4 /\ Len(BestBBox("mouth")) = 4
    /\ BestBBox("eye")[1] < 0 /\ BestBBox("eye")[4] > image_shape[1]
    /\ rois.eye = <<0, 10, 5, 20>>
    /\ BestBBox("mouth")[1] >= image_shape[2]
    /\ rois.mouth = NoRoi

----------------------------------------------------------------------------
(* Claims about preprocess_image and the analyzers (SpecUnits) *)

\* Python's round(n / d) for n >= 0, d > 0: to the nearest integer, a half to the even one
RoundDiv(n, d) ==
    LET q == n \div d
        r == n % d
    IN  IF 2 * r < d THEN q
        ELSE IF 2 * r > d THEN q + 1
        ELSE IF q % 2 = 0 THEN q ELSE q + 1

PreprocessReturned == upc = "done" /\ fn = "preprocess_image" /\ ret.raised = "none"

\* S / min-side scale of the claim: min(S / width, S / height) as <<num, den>>
ClaimScale ==
    IF input_width * args.shape[1] <= input_height * args.shape[2]
    THEN <<input_width, args.shape[2]>>
    ELSE <<input_height, args.shape[1]>>

\* C12: the image is resized to exactly (round(width * scale), round(height * scale))
\* with scale = min(S / width, S / height), and the scales returned are
\* original_width / resized_width and original_height / resized_height
C12_ResizeRounds ==
    PreprocessReturned =>
        /\ ret.resized = <<RoundDiv(args.shape[2] * ClaimScale[1], ClaimScale[2]),
                           RoundDiv(args.shape[1] * ClaimScale[1], ClaimScale[2])>>
        /\ ret.x_scale[1] * ret.resized[1] = args.shape[2] * ret.x_scale[2]
        /\ ret.y_scale[1] * ret.resized[2] = args.shape[1] * ret.y_scale[2]

\* C13: an image whose width or height is zero is rejected with InvalidImage
C13_ZeroAreaIsInvalidImage ==
    (upc = "done" /\ fn = "preprocess_image"
        /\ (args.shape[1] = 0 \/ args.shape[2] = 0))
        => ret.raised = "InvalidImage"

EyeCalled == upc = "done" /\ fn = "analyze_eye"
ArgArea == RoiShape(args.roi)[1] * RoiShape(args.roi)[2]

\* C15: with ratio = white / dark: ratio > 1.5 gives wide_open, 0.5 < ratio <= 1.5
\* gives normal, otherwise closed; with no dark pixel the ratio is 0 and the state
\* is closed
C15_EyeRatioRule ==
    (EyeCalled /\ args.m.contours) =>
        LET white == args.m.white
            dark  == ArgArea - args.m.white
        IN  /\ dark = 0 => ret = "closed"
            /\ (dark > 0 /\ 2 * white > 3 * dark) => ret = "wide_open"
            /\ (dark > 0 /\ 2 * white > dark /\ 2 * white <= 3 * dark) => ret = "normal"
            /\ (dark > 0 /\ 2 * white <= dark) => ret = "closed"

\* the eye is closed because no pixel is dark, though pixels are white
C15_Witness ==
    /\ EyeCalled /\ args.m.contours
    /\ args.m.white = ArgArea /\ args.m.white > 1
    /\ ret = "closed"

\* C16: an eye region in which every pixel is white is wide_open, one in which
\* every pixel is black is closed
C16_UniformEye ==
    EyeCalled =>
        /\ args.gray = {255} => ret = "wide_open"
        /\ args.gray = {0} => ret = "closed"

BehaviorCalled ==
    /\ upc = "done"
    /\ fn \in {"analyze_eyes_behavior", "analyze_mouth_behavior", "analyze_tail_behavior"}

\* C17: each aggregation returns 'unknown' for the empty sequence and otherwise an
\* element of the sequence that no other element outnumbers; [closed, closed,
\* wide_open] gives closed
C17_AggregationIsMode ==
    BehaviorCalled =>
        /\ args = <<>> => ret = "unknown"
        /\ args # <<>> =>
              \E i \in 1..Len(args) :
                  /\ ret = args[i]
                  /\ \A j \in 1..Len(args) :
                        Cardinality({k \in 1..Len(args) : args[k] = args[j]})
                            <= Cardinality({k \in 1..Len(args) : args[k] = ret})
        /\ args = <<"closed", "closed", "wide_open">> => ret = "closed"

\* the eye states [wide_open, closed, closed] were aggregated to closed, which is
\* neither the first nor the rarest
C17_Witness ==
    /\ upc = "done" /\ fn = "analyze_eyes_behavior"
    /\ args = <<"wide_open", "closed", "closed">>
    /\ ret = "closed"

TailFound == upc = "done" /\ fn = "detect_tail" /\ args.m.contours

\* height_ratio > width_ratio, with height_ratio = h / rows and width_ratio = w / columns
MoreVertical == args.m.h * RoiShape(args.roi)[2] > args.m.w * RoiShape(args.roi)[1]

\* C18: when a contour is found the position is up (angle < 45) or down if
\* height_ratio > width_ratio, and left (angle < 45) or right otherwise, equal
\* ratios counting as horizontal; it is never 'unknown'.  The raw and the reported
\* angle are on the same side of 45
C18_TailPositionRule ==
    TailFound =>
        /\ (args.m.angle < 45) <=> (ret.angle < 45)
        /\ ret.position # "unknown"
        /\ ret.position =
              (IF MoreVertical
               THEN (IF ret.angle < 45 THEN "up" ELSE "down")
               ELSE (IF ret.angle < 45 THEN "left" ELSE "right"))

\* a tail whose two ratios are equal and below 1 was classified as horizontal
C18_Witness ==
    /\ TailFound
    /\ args.m.h * RoiShape(args.roi)[2] = args.m.w * RoiShape(args.roi)[1]
    /\ args.m.h < RoiShape(args.roi)[1]
    /\ args.m.angle >= 45
    /\ ret.position = "right"

\* C19: for a raw angle in [-90, 90] the angle reported is in [0, 180)
C19_AngleNormalized ==
    (TailFound /\ args.m.angle >= -90 /\ args.m.angle <= 90)
        => (0 <= ret.angle /\ ret.angle < 180)

----------------------------------------------------------------------------
(* Claims about the routes (SpecRoutes) *)

\* the handler reached bytes_to_cv2_image and it returned None
DecodeGaveNone ==
    /\ rpc = "done"
    /\ IsImageContentType(request.content_type)
    /\ request.upload = "garbage"

----------------------------------------------------------------------------
(* Claims settled on the models above: the resized size, the emotion fuser's *)
(* range, the detection chosen for a class                                  *)

\* C29: for every image with width >= 1 and height >= 1 preprocess_image resizes
\* to a width and a height that are both >= 1 and <= the model input size, the
\* resize succeeds and both scales are defined
C29_ResizedSizeAtLeastOne ==
    (upc = "done" /\ fn = "preprocess_image"
        /\ args.shape[1] >= 1 /\ args.shape[2] >= 1)
        => /\ ret.raised = "none"
           /\ ret.resized[1] \in 1..input_width
           /\ ret.resized[2] \in 1..input_height
           /\ ret.x_scale[2] # 0 /\ ret.y_scale[2] # 0

\* the emotions determine_emotion may return
EmotionNames ==
    {"alert", "fearful", "content", "playful", "sleepy", "excited", "aggressive",
     "submissive", "neutral"}

DefaultTierReached ==
    /\ ExactRows(eye_in, mouth_in, tail_in) = {}
    /\ PartialRows(eye_in, mouth_in) = {}

\* C30: determine_emotion returns, for every triple of strings, one of the nine
\* emotions and never 'unknown'; and whenever the defaults are reached the pair
\* (eye, mouth) is not (wide_open, open), so the first default never decides
C30_TotalAndFirstDefaultDead ==
    epc = "done" =>
        /\ emotion_out \in EmotionNames
        /\ DefaultTierReached => ~(eye_in = "wide_open" /\ mouth_in = "open")

\* the defaults reached on strings no analyzer returns, a tail that is down deciding
C30_Witness ==
    /\ epc = "done" /\ DefaultTierReached
    /\ eye_in = "other" /\ mouth_in = "other" /\ tail_in = "down"
    /\ emotion_out = "submissive"

\* the positions of the detections of class c in the list handed over
PositionsOf(c) == {i \in 1..Len(adetections) : adetections[i].class = c}

\* position i holds a most confident detection of class c, the first of them
FirstMostConfident(c, i) ==
    /\ i \in PositionsOf(c)
    /\ \A j \in PositionsOf(c) :
          /\ adetections[j].confidence <= adetections[i].confidence
          /\ adetections[j].confidence = adetections[i].confidence => i <= j

\* C24: for each class with a detection, the one crop analysed for the class is
\* that of a detection of the class whose confidence no other of the class exceeds,
\* the first in list order among equals; the detections of the other classes have
\* no part in the choice
C24_BestOfClass ==
    apc = "done" =>
        \A c \in Range(class_names) :
            PositionsOf(c) # {} =>
                /\ \E i \in PositionsOf(c) :
                      /\ FirstMostConfident(c, i)
                      /\ rois[c] = extract_roi(image_shape, adetections[i].bbox)
                /\ rois[c] =
                      PartRoi(image_shape,
                              SelectSeq(adetections, LAMBDA d : d.class = c), c)

\* two eye detections of equal confidence with different boxes, the first analysed,
\* beside a detection of another class
C24_Witness ==
    /\ apc = "done"
    /\ Len(adetections) = 3
    /\ adetections[1].class = "eye" /\ adetections[2].class = "eye"
    /\ adetections[3].class = "mouth"
    /\ adetections[1].confidence = adetections[2].confidence
    /\ adetections[1].bbox = <<2, 2, 12, 12>> /\ adetections[2].bbox = <<-5, 10, 5, 25>>
    /\ rois.eye = <<2, 2, 12, 12>>

----------------------------------------------------------------------------
(* Claims about the authentication dependencies (SpecAuth) *)

\* the header is 'Bearer <token>': two words, the first the scheme bearer
BearerHeader ==
    /\ args.authorization.kind = "text"
    /\ Len(args.authorization.words) = 2
    /\ Lower(args.authorization.words[1]) = "bearer"

\* the session is valid and has an email
SessionWithEmail == ~args.session.raised /\ args.session.emails # <<>>

SessionUser ==
    <<[stytch_user_id |-> args.session.stytch_user_id, email |-> args.session.emails[1]]>>

Is401 ==
    /\ ret.exc # <<>>
    /\ ret.exc[1].type = "HTTPException" /\ ret.exc[1].status_code = 401

\* get_optional_user never raises, and returns None whenever the header is missing
\* or malformed, the session is invalid or without email, or the lookup fails
OptionalUserRule ==
    (upc = "done" /\ fn = "get_optional_user") =>
        /\ ret.exc = <<>>
        /\ (~BearerHeader \/ ~SessionWithEmail \/ args.lookup = "raises")
              => ret.value = <<>>

\* C23 as stated: get_optional_user never raises and returns None in each of the
\* failure cases; get_current_user raises 401 for a missing or malformed header,
\* an invalid session or a session without email, and otherwise returns the user
\* of the session's stytch_user_id
C23_AuthDependencies ==
    /\ OptionalUserRule
    /\ (upc = "done" /\ fn = "get_current_user") =>
          IF ~BearerHeader \/ ~SessionWithEmail THEN Is401
          ELSE ret = Returns(SessionUser)

\* C23 amended: as stated, except that get_current_user lets the exception of a
\* failed user lookup or creation through (no 401, no user); it returns the user
\* of the session's stytch_user_id when the lookup succeeds
C23_AuthDependenciesLookupPropagates ==
    /\ OptionalUserRule
    /\ (upc = "done" /\ fn = "get_optional_user"
            /\ BearerHeader /\ SessionWithEmail /\ args.lookup = "returns")
          => ret = Returns(SessionUser)
    /\ (upc = "done" /\ fn = "get_current_user") =>
          IF ~BearerHeader \/ ~SessionWithEmail THEN Is401
          ELSE IF args.lookup = "raises"
          THEN ret.exc # <<>> /\ ret.exc[1].type # "HTTPException" /\ ret.value = <<>>
          ELSE ret = Returns(SessionUser)

\* get_optional_user gave None on a valid session whose user lookup failed
C23_Witness ==
    /\ upc = "done" /\ fn = "get_optional_user"
    /\ BearerHeader /\ SessionWithEmail /\ args.lookup = "raises"
    /\ ret = Returns(<<>>)

----------------------------------------------------------------------------
(* Claims about analyze_image_file (SpecProcessing) *)

\* the image was decoded and the detector returned
ImageAnalysed ==
    /\ rpc = "done"
    /\ IsImageContentType(request.content_type)
    /\ request.upload = "image"
    /\ ~request.detect.raised

\* C25: a failure while saving to the database never fails the request: the
\* response carries the detections, the analysis and the emotion computed, with
\* chat_session_id None; chat_session_id is not None only if the save succeeded
\* and created a chat session
C25_SaveFailureIsNotFatal ==
    ImageAnalysed =>
        /\ response.exc = <<>>
        /\ response.value[1].detections = formatted_detections(request.detect.detections)
        /\ response.value[1].analysis = request.analysis.analysis_result
        /\ response.value[1].emotion = request.analysis.emotion
        /\ request.db = "fails" => response.value[1].chat_session_id = <<>>
        /\ response.value[1].chat_session_id # <<>>
              => (request.db = "works" /\ request.user # <<>>)

----------------------------------------------------------------------------
(* Claims about the chat (SpecChat) *)

ChatOps == {"get_chat_session", "get_chat_messages", "send_message"}

IsStatus(r, status_code) ==
    /\ r.exc # <<>>
    /\ r.exc[1].type = "HTTPException" /\ r.exc[1].status_code = status_code

\* the last call named a session that exists and belongs to another user
ForeignSession ==
    /\ chat_call.op \in ChatOps
    /\ chat_call.session_id \in DOMAIN chat_sessions
    /\ chat_sessions[chat_call.session_id] # chat_call.user_id

\* C22: get_chat_session, get_chat_messages and send_message on a session of
\* another user fail with 403, return no session or message data, store no message
\* and do not invoke the model; on a session that does not exist they fail with 404
C22_OwnerOnly ==
    [][(chat_call.op \in ChatOps)' =>
          /\ ForeignSession' =>
                /\ IsStatus(chat_call.response, 403)'
                /\ (chat_call.response.value = <<>>)'
                /\ chat_messages' = chat_messages
                /\ checkpoint' = checkpoint
                /\ (chat_call.model_input = <<>>)'
          /\ (chat_call.session_id \notin DOMAIN chat_sessions)' =>
                /\ IsStatus(chat_call.response, 404)'
                /\ chat_messages' = chat_messages
                /\ (chat_call.model_input = <<>>)']_vars

\* send_message on another user's session, which holds messages, was refused
C22_Witness ==
    /\ chat_call.op = "send_message" /\ ForeignSession
    /\ get_session_messages(chat_messages, chat_call.session_id) # <<>>
    /\ IsStatus(chat_call.response, 403)

\* the last call was a send_message of the session's owner
OwnerSent ==
    /\ chat_call.op = "send_message"
    /\ chat_call.session_id \in DOMAIN chat_sessions
    /\ chat_sessions[chat_call.session_id] = chat_call.user_id

\* the role of the langchain message a stored row is converted to
RoleOf(sender) == IF sender = "user" THEN "human" ELSE "ai"

\* the list the claim describes: the system prompt, the rows of the session stored
\* by users and the assistant in creation order, the new message
ExpectedModelInput(table, session_id, content) ==
    LET stored == SelectSeq(table, LAMBDA row :
                      row.session_id = session_id /\ row.sender \in {"user", "assistant"})
    IN  <<[role |-> "system", content |-> CHAT_SYSTEM_PROMPT]>>
            \o [i \in 1..Len(stored) |->
                    [role |-> RoleOf(stored[i].sender), content |-> stored[i].content]]
            \o <<[role |-> "human", content |-> content]>>

\* a message list without the ids
RolesAndContents(ms) ==
    [i \in 1..Len(ms) |-> [role |-> ms[i].role, content |-> ms[i].content]]

\* C26: the list handed to the model by a send_message call is the system prompt
\* once, first, then the messages stored in the session before the call, in
\* creation order and once each, then the new user message once; on the first
\* and on every later message of the session
C26_ModelInputIsHistoryOnce ==
    [][OwnerSent' =>
          RolesAndContents(chat_call.model_input)' =
              ExpectedModelInput(chat_messages, chat_call'.session_id, chat_call'.content)]_vars

Position(trace, step) == SetMin({i \in 1..Len(trace) : trace[i] = step} \cup {Len(trace) + 1})

\* in each session every reply send_message stored directly follows a user message
RepliesFollowUserMessages ==
    \A s \in DOMAIN chat_sessions :
        LET stored == get_session_messages(chat_messages, s)
        IN  \A i \in 1..Len(stored) :
                (stored[i].sender = "assistant" /\ stored[i].content # "analysis")
                    => (i > 1 /\ stored[i - 1].sender = "user")

\* C27: send_message stores the user's message before it invokes the model and
\* the assistant's message only after the model returned; when the model fails the
\* request fails with 500, the user's message stays stored and no assistant message
\* is stored; so each stored reply directly follows the user message it answers
C27_UserThenModelThenAssistant ==
    [][OwnerSent' =>
          LET n == Len(chat_messages)
              user_row == [id |-> n + 1, session_id |-> chat_call'.session_id,
                           sender |-> "user", content |-> chat_call'.content]
          IN  /\ Len(chat_messages') > n
              /\ SubSeq(chat_messages', 1, n + 1) = Append(chat_messages, user_row)
              /\ Position(chat_call'.trace, "save_message user")
                    < Position(chat_call'.trace, "llm.invoke")
              /\ Position(chat_call'.trace, "llm.invoke") <= Len(chat_call'.trace)
              /\ IF chat_call'.response.exc # <<>>
                 THEN /\ IsStatus(chat_call.response, 500)'
                      /\ Len(chat_messages') = n + 1
                      /\ Position(chat_call'.trace, "save_message assistant")
                            > Len(chat_call'.trace)
                 ELSE /\ Len(chat_messages') = n + 2
                      /\ chat_messages'[n + 2].sender = "assistant"
                      /\ chat_messages'[n + 2].session_id = chat_call'.session_id
                      /\ chat_call'.response.value = <<chat_messages'[n + 2]>>
                      /\ Position(chat_call'.trace, "llm.invoke")
                            < Position(chat_call'.trace, "save_message assistant")
              /\ RepliesFollowUserMessages']_vars

\* the model failed on the second message of a session: the call gave 500 and the
\* user's message is the last row stored, after an answered one
C27_Witness ==
    /\ OwnerSent /\ IsStatus(chat_call.response, 500)
    /\ Len(chat_messages) >= 3
    /\ chat_messages[Len(chat_messages)].sender = "user"
    /\ chat_messages[Len(chat_messages)].content = chat_call.content
    /\ chat_messages[Len(chat_messages)].session_id = chat_call.session_id
    /\ chat_messages[Len(chat_messages) - 1].sender = "assistant"
    /\ chat_messages[Len(chat_messages) - 1].session_id = chat_call.session_id
    /\ RepliesFollowUserMessages

----------------------------------------------------------------------------
(* Claims about get_or_create_user (SpecUsers) *)

\* the calls completed for stytch_user_id s, in the order they completed
CompletedFor(s) == SelectSeq(completed, LAMBDA c : goc[c].stytch_user_id = s)

\* C28: after any interleaving of get_or_create_user calls there is at most one
\* user record per stytch_user_id, every completed call returned that record, and
\* its email is the one passed by the most recently completed call
C28_OneRecordReturnedToAll ==
    \A s \in StytchUserIds :
        /\ Cardinality({r \in users : r.stytch_user_id = s}) <= 1
        /\ \A i \in 1..Len(CompletedFor(s)) :
              LET c == CompletedFor(s)[i]
              IN  /\ goc[c].result.exc = <<>>
                  /\ goc[c].result.value # <<>>
                  /\ \E r \in users : r.stytch_user_id = s /\ r.id = goc[c].result.value[1].id
        /\ CompletedFor(s) # <<>> =>
              \E r \in users :
                  /\ r.stytch_user_id = s
                  /\ r.email = goc[CompletedFor(s)[Len(CompletedFor(s))]].email

----------------------------------------------------------------------------
(* Claims about concurrent invocations (SpecConcurrent) *)

\* what invocation c gives when it runs alone on the service as constructed
AloneDetections(c) == detect(invocations[c].shape, invocations[c].tensor)
AloneAnalysis(c) ==
    LET r == analyze_body_parts(invocations[c].shape, AloneDetections(c).value,
                                invocations[c].measures.me, invocations[c].measures.mm,
                                invocations[c].measures.mt)
    IN  <<[analysis_result |-> r.analysis_result, emotion |-> r.emotion]>>

====
